---- MODULE Spec2Model ----
(***************************************************************************)
(* Model of the AI suggestion orchestration layer of klara-web-app         *)
(* (src/lib/services/aiClient.ts and the code it calls) and of the task    *)
(* repository operations that write the same cache table.                  *)
(*                                                                         *)
(* A JavaScript string is modelled as a sequence of symbols (each symbol a *)
(* TLA+ string); the empty sequence is the empty string, and, as in the    *)
(* source, every test of the form `!s` or `a || b` treats the empty string *)
(* and `undefined` alike, so an absent optional string is the empty        *)
(* sequence.  Time is in milliseconds, as returned by Date.now().          *)
(***************************************************************************)
EXTENDS Integers, Sequences, FiniteSets, TLC

VARIABLES
    now,            \* Date.now()
    ticks,          \* number of clock advances so far (bounds the run)
    rateLimits,     \* aiClient.ts `rateLimits`: bucket -> key -> timestamps
    aiSuggestions,  \* Dexie table db.aiSuggestions: the set of its records
    inFlight,       \* aiClient.ts `inFlight`: key -> promise
    promises,       \* the promises created at aiClient.ts:238, by creating call
    pc,             \* where each requestAISuggestions call stands
    params,         \* the params of each call
    result,         \* the value each returned promise resolved to
    del,            \* record id a call's getCachedSuggestions is deleting
    joined,         \* the in-flight promise a call returned at line 235
    concurrent,     \* observer: pending same-key promise at a call's rate check
    probe,          \* observer of direct withinLimit calls on one bucket
    lastCheck,      \* observer of the latest checkRateLimits call
    before,         \* observer: the table as it was when the current call was made
    tasks,          \* Dexie table db.tasks: the set of its rows
    uiTasks,        \* useTasks: the React state `tasks`
    repoOp,         \* where each running taskRepository operation stands
    started,        \* number of repository operations started (bounds the run)
    sigPair,        \* two snapshots of a task and their signatures
    nudgeTasks,     \* the task list the page passes to detectAllNudges
    cooldowns,      \* localStorage['klara.nudgeCooldowns']
    nudgeRuns,      \* the nudge detections made so far, latest last
    dismissals,     \* observer: when each nudge was last dismissed
    inference,      \* the signals given to determineState and its answer
    admitted,       \* observer: the requests checkRateLimits has let through
    parsed,         \* a provider reply given to parseResponse and its answer
    focus           \* the focus fields of db.tasks and the toggleFocused calls

\* The state of the library functions exercised on their own.
nudgeVars == <<nudgeTasks, cooldowns, nudgeRuns, dismissals>>

\* The state of the further functions exercised on their own.
pathVars == <<admitted, parsed, focus>>

libVars == <<sigPair, nudgeVars, inference, pathVars>>

orchVars == <<aiSuggestions, inFlight, promises, pc, params, result, del,
              joined, concurrent, before, tasks, uiTasks, repoOp, started>>

callVars == <<inFlight, promises, pc, params, result, del, joined, concurrent,
              before>>

vars == <<now, ticks, rateLimits, aiSuggestions, inFlight, promises, pc,
          params, result, del, joined, concurrent, probe, lastCheck, before,
          tasks, uiTasks, repoOp, started, libVars>>

-----------------------------------------------------------------------------
(* Bounds *)

MaxBucketTicks == 3
MaxRateTicks == 1
MaxCalls == 2
MaxTicks == 1
MaxCacheTicks == 2
MaxRepoOps == 4
MaxRepoCalls == 2
MaxSigTextLen == 2
MaxNudgeTasks == 4
MaxCooldownTicks == 3
MaxDismiss == 2
MaxRuleTicks == 2
MaxSignals == 3
MaxValidTicks == 3
MaxAdmitTicks == 2
MaxCount == 7
MaxSignalTicks == 2
MaxToggles == 2
MaxFocusTicks == 1
MaxArrayLen == 6

-----------------------------------------------------------------------------
(* Program constants *)

N_RETRY == 2
CACHE_TTL_MS == 24 * 60 * 60 * 1000

RateBucket == {"perTask5m", "perTask1h", "perUser1m", "perUser1h"}

RATE_CONFIG ==
    [perTask5m |-> [windowMs |-> 5 * 60 * 1000, max |-> 1],
     perTask1h |-> [windowMs |-> 60 * 60 * 1000, max |-> 3],
     perUser1m |-> [windowMs |-> 60 * 1000, max |-> 3],
     perUser1h |-> [windowMs |-> 60 * 60 * 1000, max |-> 10]]

UserKey == <<"user-default">>

MsgPerTask5m == <<"This task just asked AI. Give it a few minutes and try again.">>
MsgPerTask1h == <<"This task hit its hourly AI limit. Try again later.">>
MsgPerUser1m == <<"AI is taking a short breather. Please retry in a moment.">>
MsgPerUser1h == <<"You reached the hourly AI limit. Please try again later.">>

-----------------------------------------------------------------------------
(* Strings and task signatures *)

\* String.prototype.trim over symbol sequences: drop leading/trailing blanks.
RECURSIVE TrimStart(_)
TrimStart(s) ==
    IF s # <<>> /\ Head(s) = " " THEN TrimStart(Tail(s)) ELSE s

RECURSIVE TrimEnd(_)
TrimEnd(s) ==
    IF s # <<>> /\ s[Len(s)] = " " THEN TrimEnd(SubSeq(s, 1, Len(s) - 1)) ELSE s

Trim(s) == TrimEnd(TrimStart(s))

\* null, as a value no string equals
Null == <<"(null)">>

\* Mutant: the text goes into the signature untrimmed.
buildTaskSignature_Untrimmed(input) ==
    LET normalizedDate == IF input.dueDate = Null THEN <<>> ELSE input.dueDate
    IN  input.text \o <<"|", input.importance, "|", input.urgency, "|">>
            \o normalizedDate

\* buildTaskSignature: `${text.trim()}|${importance}|${urgency}|${dueDate ?? ''}`
buildTaskSignature(input) ==
    LET normalizedText == Trim(input.text)
        normalizedDate == IF input.dueDate = Null THEN <<>> ELSE input.dueDate
    IN  normalizedText \o <<"|", input.importance, "|", input.urgency, "|">>
            \o normalizedDate

\* getSignatureFromParams
getSignatureFromParams(p) ==
    IF p.taskSignature # <<>>
    THEN p.taskSignature
    ELSE buildTaskSignature([text |-> p.taskText, importance |-> "high",
                             urgency |-> "high", dueDate |-> Null])

\* a || b || c on strings
OrElse(a, b) == IF a # <<>> THEN a ELSE b

\* buildRateKey
buildRateKey(p) ==
    [taskKey |-> OrElse(p.taskSignature, OrElse(p.taskId, p.taskText)),
     userKey |-> UserKey]

-----------------------------------------------------------------------------
(* Rate limiter *)

\* Mutant: the window excludes a timestamp exactly windowMs old.
FilterValid_Strict(entries, t, windowMs) ==
    SelectSeq(entries, LAMBDA ts : t - ts < windowMs)

\* entries.filter(ts => now - ts <= cfg.windowMs)
FilterValid(entries, t, windowMs) ==
    SelectSeq(entries, LAMBDA ts : t - ts <= windowMs)

\* rateLimits[bucket].get(key) ?? []
Entries(limits, bucket, key) ==
    IF key \in DOMAIN limits[bucket] THEN limits[bucket][key] ELSE <<>>

\* rateLimits[bucket].set(key, value)
SetEntries(limits, bucket, key, value) ==
    [limits EXCEPT ![bucket] =
        [k \in (DOMAIN limits[bucket]) \cup {key} |->
            IF k = key THEN value ELSE limits[bucket][k]]]

\* Mutant: an admission leaves no timestamp behind.
withinLimit_Forgets(limits, bucket, key, t) ==
    LET cfg == RATE_CONFIG[bucket]
        valid == FilterValid(Entries(limits, bucket, key), t, cfg.windowMs)
    IN  IF Len(valid) >= cfg.max
        THEN [ok |-> FALSE, limits |-> SetEntries(limits, bucket, key, valid)]
        ELSE [ok |-> TRUE, limits |-> SetEntries(limits, bucket, key, valid)]

\* Mutant: a bucket lets one request more than its max through.
withinLimit_OneMore(limits, bucket, key, t) ==
    LET cfg == RATE_CONFIG[bucket]
        valid == FilterValid(Entries(limits, bucket, key), t, cfg.windowMs)
    IN  IF Len(valid) > cfg.max
        THEN [ok |-> FALSE, limits |-> SetEntries(limits, bucket, key, valid)]
        ELSE [ok |-> TRUE,
              limits |-> SetEntries(limits, bucket, key, Append(valid, t))]

\* withinLimit(bucket, key) at time t on the limiter state `limits`:
\* the returned boolean and the limiter state it leaves.
withinLimit(limits, bucket, key, t) ==
    LET cfg == RATE_CONFIG[bucket]
        valid == FilterValid(Entries(limits, bucket, key), t, cfg.windowMs)
    IN  IF Len(valid) >= cfg.max
        THEN [ok |-> FALSE, limits |-> SetEntries(limits, bucket, key, valid)]
        ELSE [ok |-> TRUE,
              limits |-> SetEntries(limits, bucket, key, Append(valid, t))]

\* Mutant: the per-task 5 min bucket is consulted but its verdict ignored.
checkRateLimits_SkipTask5m(limits, p, t) ==
    LET k == [taskKey |-> OrElse(p.taskSignature, OrElse(p.taskId, p.taskText)),
              userKey |-> UserKey]
        r1 == withinLimit(limits, "perTask5m", k.taskKey, t)
        r2 == withinLimit(r1.limits, "perTask1h", k.taskKey, t)
        r3 == withinLimit(r2.limits, "perUser1m", k.userKey, t)
        r4 == withinLimit(r3.limits, "perUser1h", k.userKey, t)
    IN  IF ~r2.ok THEN [ok |-> FALSE, message |-> MsgPerTask1h, limits |-> r2.limits]
        ELSE IF ~r3.ok THEN [ok |-> FALSE, message |-> MsgPerUser1m, limits |-> r3.limits]
        ELSE IF ~r4.ok THEN [ok |-> FALSE, message |-> MsgPerUser1h, limits |-> r4.limits]
        ELSE [ok |-> TRUE, message |-> <<>>, limits |-> r4.limits]

\* Mutant: the per-process buckets are checked before the per-task ones.
checkRateLimits_UserFirst(limits, p, t) ==
    LET k == [taskKey |-> OrElse(p.taskSignature, OrElse(p.taskId, p.taskText)),
              userKey |-> UserKey]
        r1 == withinLimit(limits, "perUser1m", k.userKey, t)
        r2 == withinLimit(r1.limits, "perUser1h", k.userKey, t)
        r3 == withinLimit(r2.limits, "perTask5m", k.taskKey, t)
        r4 == withinLimit(r3.limits, "perTask1h", k.taskKey, t)
    IN  IF ~r1.ok THEN [ok |-> FALSE, message |-> MsgPerUser1m, limits |-> r1.limits]
        ELSE IF ~r2.ok THEN [ok |-> FALSE, message |-> MsgPerUser1h, limits |-> r2.limits]
        ELSE IF ~r3.ok THEN [ok |-> FALSE, message |-> MsgPerTask5m, limits |-> r3.limits]
        ELSE IF ~r4.ok THEN [ok |-> FALSE, message |-> MsgPerTask1h, limits |-> r4.limits]
        ELSE [ok |-> TRUE, message |-> <<>>, limits |-> r4.limits]

\* Mutant: admission is all-or-nothing, a rejection leaves no timestamp.
checkRateLimits_Transactional(limits, p, t) ==
    LET k == [taskKey |-> OrElse(p.taskSignature, OrElse(p.taskId, p.taskText)),
              userKey |-> UserKey]
        r1 == withinLimit(limits, "perTask5m", k.taskKey, t)
        r2 == withinLimit(r1.limits, "perTask1h", k.taskKey, t)
        r3 == withinLimit(r2.limits, "perUser1m", k.userKey, t)
        r4 == withinLimit(r3.limits, "perUser1h", k.userKey, t)
    IN  IF ~r1.ok THEN [ok |-> FALSE, message |-> MsgPerTask5m, limits |-> limits]
        ELSE IF ~r2.ok THEN [ok |-> FALSE, message |-> MsgPerTask1h, limits |-> limits]
        ELSE IF ~r3.ok THEN [ok |-> FALSE, message |-> MsgPerUser1m, limits |-> limits]
        ELSE IF ~r4.ok THEN [ok |-> FALSE, message |-> MsgPerUser1h, limits |-> limits]
        ELSE [ok |-> TRUE, message |-> <<>>, limits |-> r4.limits]

\* checkRateLimits(params) at time t: {ok, message} and the limiter state.
checkRateLimits(limits, p, t) ==
    LET k == buildRateKey(p)
        r1 == withinLimit(limits, "perTask5m", k.taskKey, t)
        r2 == withinLimit(r1.limits, "perTask1h", k.taskKey, t)
        r3 == withinLimit(r2.limits, "perUser1m", k.userKey, t)
        r4 == withinLimit(r3.limits, "perUser1h", k.userKey, t)
    IN  IF ~r1.ok THEN [ok |-> FALSE, message |-> MsgPerTask5m, limits |-> r1.limits]
        ELSE IF ~r2.ok THEN [ok |-> FALSE, message |-> MsgPerTask1h, limits |-> r2.limits]
        ELSE IF ~r3.ok THEN [ok |-> FALSE, message |-> MsgPerUser1m, limits |-> r3.limits]
        ELSE IF ~r4.ok THEN [ok |-> FALSE, message |-> MsgPerUser1h, limits |-> r4.limits]
        ELSE [ok |-> TRUE, message |-> <<>>, limits |-> r4.limits]

\* const rateLimits = { perTask5m: new Map(), ... }
EmptyLimits == [b \in RateBucket |-> <<>>]

NoProbe == [bucket |-> "none"]
NoCheck == [called |-> FALSE]

-----------------------------------------------------------------------------
(* Cache store access (getCachedSuggestions, saveSuggestions) *)

\* db.aiSuggestions.where('taskId').equals(taskId): the matching records
WhereTaskId(store, taskId) == {r \in store : r.taskId = taskId}

\* Mutant: delete removes nothing.
DeleteById_None(store, id) == store

\* db.aiSuggestions.delete(id)
DeleteById(store, id) == {r \in store : r.id # id}

\* db.aiSuggestions.put(record): insert, replacing the record of the same id
Put(store, record) == DeleteById(store, record.id) \cup {record}

\* new Date(t).toISOString(): the date and the time of day, to the
\* millisecond.  The date is written as the day number since the epoch.
ToISOString(t) ==
    [date |-> t \div 86400000, h |-> (t \div 3600000) % 24,
     m |-> (t \div 60000) % 60, s |-> (t \div 1000) % 60, ms |-> t % 1000]

\* new Date(iso).getTime()
GetTime(iso) ==
    (((iso.date * 24 + iso.h) * 60 + iso.m) * 60 + iso.s) * 1000 + iso.ms

\* Mutant: a record is expired from its deadline on.
Expired_AtDeadline(record, t) == t >= GetTime(record.expiresAt)

\* expired (line 128); expiresAt is never the empty string
Expired(record, t) == t > GetTime(record.expiresAt)

\* Mutant: a cache hit is not marked as served from the cache.
CacheHitResult_Unmarked(record) ==
    [suggestions |-> record.suggestions, success |-> TRUE]

\* The value a cache hit returns (aiClient.ts:135-139).
CacheHitResult(record) ==
    [suggestions |-> record.suggestions, success |-> TRUE, fromCache |-> TRUE]

\* Mutant: a stale record is reported as a miss but left in the table.
getCachedSuggestions_KeepStale(store, taskId, signature, t) ==
    IF taskId = <<>> \/ signature = <<>> \/ WhereTaskId(store, taskId) = {}
    THEN [hit |-> FALSE, evict |-> FALSE]
    ELSE LET record == CHOOSE r \in WhereTaskId(store, taskId) : TRUE
             expired == Expired(record, t)
             signatureMatch == record.taskSignature = signature
         IN  IF ~signatureMatch \/ expired
             THEN [hit |-> FALSE, evict |-> FALSE]
             ELSE [hit |-> TRUE, evict |-> FALSE, value |-> CacheHitResult(record)]

\* getCachedSuggestions(taskId, signature) against `store` at time t:
\* what it returns (hit, value) and the record id it deletes, if any.
getCachedSuggestions(store, taskId, signature, t) ==
    IF taskId = <<>> \/ signature = <<>> \/ WhereTaskId(store, taskId) = {}
    THEN [hit |-> FALSE, evict |-> FALSE]
    ELSE LET record == CHOOSE r \in WhereTaskId(store, taskId) : TRUE
             expired == Expired(record, t)
             signatureMatch == record.taskSignature = signature
         IN  IF ~signatureMatch \/ expired
             THEN [hit |-> FALSE, evict |-> TRUE, id |-> record.id]
             ELSE [hit |-> TRUE, evict |-> FALSE, value |-> CacheHitResult(record)]

\* Mutant: the record expires at the moment it is written.
saveSuggestions_NoTtl(taskId, signature, suggestions, t) ==
    IF taskId = <<>> \/ signature = <<>> \/ Len(suggestions) = 0
    THEN [write |-> FALSE]
    ELSE [write |-> TRUE,
          record |-> [id |-> taskId \o <<"-ai-suggestion">>,
                      taskId |-> taskId,
                      suggestions |-> suggestions,
                      taskSignature |-> signature,
                      status |-> "active",
                      createdAt |-> ToISOString(t),
                      expiresAt |-> ToISOString(t)]]

\* saveSuggestions(taskId, signature, suggestions) called at time t: the
\* record it puts, or no write at all.
saveSuggestions(taskId, signature, suggestions, t) ==
    IF taskId = <<>> \/ signature = <<>> \/ Len(suggestions) = 0
    THEN [write |-> FALSE]
    ELSE [write |-> TRUE,
          record |-> [id |-> taskId \o <<"-ai-suggestion">>,
                      taskId |-> taskId,
                      suggestions |-> suggestions,
                      taskSignature |-> signature,
                      status |-> "active",
                      createdAt |-> ToISOString(t),
                      expiresAt |-> ToISOString(t + CACHE_TTL_MS)]]

-----------------------------------------------------------------------------
(* The provider call: POST /api/ai/suggest as fetchWithRetry sees it *)

Digits == <<"0", "1", "2", "3", "4", "5", "6", "7", "8", "9">>

\* `HTTP ${response.status}`
HttpStatusText(status) ==
    <<"HTTP", " ", Digits[(status \div 100) + 1],
      Digits[((status \div 10) % 10) + 1], Digits[(status % 10) + 1]>>

\* String.prototype.toLowerCase on the symbols that occur
ToLowerCase(s) ==
    [i \in DOMAIN s |-> IF s[i] = "Network" THEN "network"
                        ELSE IF s[i] = "HTTP" THEN "http" ELSE s[i]]

Includes(s, sym) == \E i \in DOMAIN s : s[i] = sym

StartsWith(s, prefix) ==
    Len(s) >= Len(prefix) /\ SubSeq(s, 1, Len(prefix)) = prefix

ErrorOf(r) == IF "error" \in DOMAIN r THEN r.error ELSE <<>>

\* What the route handler (route.ts) and the transport can answer.
RespOk ==
    [kind |-> "response", status |-> 200, json |-> TRUE,
     body |-> [suggestions |-> <<"step one", "step two">>, success |-> TRUE]]
RespOkEmpty ==
    [kind |-> "response", status |-> 200, json |-> TRUE,
     body |-> [suggestions |-> <<>>, success |-> TRUE]]
RespBadRequest ==
    [kind |-> "response", status |-> 400, json |-> TRUE,
     body |-> [suggestions |-> <<>>, success |-> FALSE,
               error |-> <<"taskText", " ", "is", " ", "required">>]]
RespNotConfigured ==
    [kind |-> "response", status |-> 503, json |-> TRUE,
     body |-> [suggestions |-> <<>>, success |-> FALSE,
               error |-> <<"AI", " ", "service", " ", "not", " ", "configured">>]]
RespInternalError ==
    [kind |-> "response", status |-> 500, json |-> TRUE,
     body |-> [suggestions |-> <<>>, success |-> FALSE,
               error |-> <<"Internal", " ", "server", " ", "error">>]]
RespProviderNetwork ==
    [kind |-> "response", status |-> 500, json |-> TRUE,
     body |-> [suggestions |-> <<>>, success |-> FALSE,
               error |-> <<"Network", " ", "error">>]]
RespProviderNoMessage ==
    [kind |-> "response", status |-> 500, json |-> TRUE,
     body |-> [suggestions |-> <<>>, success |-> FALSE, error |-> <<>>]]
\* The provider answered text without a JSON array (parseResponse throws);
\* suggestSubtasks returns the message and the route answers 500 with it.
RespMalformed ==
    [kind |-> "response", status |-> 500, json |-> TRUE,
     body |-> [suggestions |-> <<>>, success |-> FALSE,
               error |-> <<"No", " ", "JSON", " ", "array", " ", "found", " ",
                           "in", " ", "response">>]]
RespBadGateway ==
    [kind |-> "response", status |-> 502, json |-> FALSE, body |-> <<>>]
FetchRejects ==
    [kind |-> "throw", status |-> 0, json |-> FALSE, body |-> <<>>]

Responses ==
    {RespOk, RespOkEmpty, RespBadRequest, RespNotConfigured, RespInternalError,
     RespProviderNetwork, RespProviderNoMessage, RespMalformed, RespBadGateway,
     FetchRejects}

\* No attempt of the promise has settled yet.
NoResponse == [kind |-> "none", status |-> 0, json |-> FALSE, body |-> <<>>]

\* One response of each kind the retry loop tells apart: success, a failure
\* it does not retry, a failure it retries, and a rejected fetch.
CoreResponses == {RespOk, RespBadRequest, RespProviderNoMessage, FetchRejects}

\* response.ok
ResponseOk(resp) == resp.status >= 200 /\ resp.status <= 299

\* Mutant: a failed response is reported by its status alone.
attempt_StatusText(resp) ==
    IF resp.kind = "throw" \/ ~resp.json
    THEN [threw |-> TRUE]
    ELSE IF ~ResponseOk(resp)
    THEN [threw |-> FALSE,
          result |-> [suggestions |-> <<>>, success |-> FALSE,
                      error |-> HttpStatusText(resp.status)]]
    ELSE [threw |-> FALSE, result |-> resp.body]

\* attempt(): the result it resolves to, or that it throws (fetch rejected,
\* or response.json() rejected on a body that is not JSON).
attempt(resp) ==
    IF resp.kind = "throw" \/ ~resp.json
    THEN [threw |-> TRUE]
    ELSE IF ~ResponseOk(resp)
    THEN [threw |-> FALSE,
          result |-> [suggestions |-> <<>>, success |-> FALSE,
                      error |-> OrElse(ErrorOf(resp.body),
                                       HttpStatusText(resp.status))]]
    ELSE [threw |-> FALSE, result |-> resp.body]

\* Mutant: every failure is retried.
isRetryable_Always(r) == TRUE

\* isRetryable (aiClient.ts:196-199)
isRetryable(r) ==
    \/ ErrorOf(r) = <<>>
    \/ Includes(ToLowerCase(ErrorOf(r)), "network")
    \/ StartsWith(ErrorOf(r), <<"HTTP", " ", "5">>)

\* Mutant: the loop gives up one attempt early.
afterAttempt_OneShort(i, r) ==
    IF r.success THEN "return"
    ELSE IF r.error # <<>> /\ ~Includes(ToLowerCase(r.error), "network")
            /\ ~StartsWith(r.error, <<"HTTP", " ", "5">>) THEN "return"
    ELSE IF i + 1 < N_RETRY THEN "sleep"
    ELSE "exhausted"

\* The body of the retry loop after attempt i resolved to r (lines 193-207).
afterAttempt(i, r) ==
    IF r.success THEN "return"
    ELSE IF ~isRetryable(r) THEN "return"
    ELSE IF i < N_RETRY THEN "sleep"
    ELSE "exhausted"

\* Math.random() is modelled as rnd / RandomDen with rnd in 0..RandomDen-1.
RandomDen == 1000

\* The draws used: the least, a middle one and the greatest.
RandomSamples == {0, RandomDen \div 2, RandomDen - 1}

\* In the concurrent specification every draw is the least one.
CoreRandom == {0}

\* Math.round(x) for x = num / den >= 0: the nearest integer, halves upwards
RoundDiv(num, den) == (2 * num + den) \div (2 * den)

\* Mutant: the jitter adds up to 50 % instead of up to 20 %.
backoffMs_WideJitter(i, rnd) ==
    RoundDiv(300 * (3 ^ i) * (2 * RandomDen + rnd), 2 * RandomDen)

\* Math.round(300 * Math.pow(3, i) * (1 + Math.random() * 0.2)), line 204
backoffMs(i, rnd) ==
    RoundDiv(300 * (3 ^ i) * (5 * RandomDen + rnd), 5 * RandomDen)

\* Mutant: the in-flight map is never found to hold the key.
InFlightHas_Never(map, key) == FALSE

\* inFlight.has(key)
InFlightHas(map, key) == key \in DOMAIN map

\* Mutant: a rejection is returned as a plain failure.
RateLimitedResult_Unmarked(message) ==
    [suggestions |-> <<>>, success |-> FALSE, error |-> message]

\* The value returned on a rate-limit rejection (aiClient.ts:225-230).
RateLimitedResult(message) ==
    [suggestions |-> <<>>, success |-> FALSE, error |-> message,
     rateLimited |-> TRUE]

-----------------------------------------------------------------------------
(* Request parameters used by the specifications *)

Sig(text, importance, urgency, dueDate) ==
    buildTaskSignature([text |-> text, importance |-> importance,
                        urgency |-> urgency, dueDate |-> dueDate])

\* A task card asking for a breakdown passes taskId and taskSignature; the
\* quick-add input passes the text only.
ParamA == [taskId |-> <<"t1">>, taskText |-> <<"a">>,
           taskSignature |-> Sig(<<"a">>, "high", "low", <<>>)]
ParamB == [taskId |-> <<"t2">>, taskText |-> <<"b">>,
           taskSignature |-> Sig(<<"b">>, "low", "low", <<>>)]
ParamC == [taskId |-> <<>>, taskText |-> <<"c">>, taskSignature |-> <<>>]
ParamD == [taskId |-> <<"t4">>, taskText |-> <<"d">>, taskSignature |-> <<>>]

RateParams == {ParamA, ParamB, ParamC, ParamD}

-----------------------------------------------------------------------------
(* Spec: concurrent calls of requestAISuggestions *)

\* The same task as ParamA after its text was edited.
ParamA2 == [taskId |-> <<"t1">>, taskText |-> <<"a", "2">>,
            taskSignature |-> Sig(<<"a", "2">>, "high", "low", <<>>)]

\* Concurrent calls are made for one task, before and after the edit.
CallParams == {ParamA, ParamA2}

\* A single call is made with each shape of params.
FetchParams == {ParamA, ParamC, ParamD}

Calls == 1..MaxCalls

NoParams == [taskId |-> <<>>, taskText |-> <<>>, taskSignature |-> <<>>]
NoResult == [none |-> TRUE]

\* The operations of taskRepository and useTasks that touch the cache table.
RepoOps == {"create", "update", "consume", "delete", "load"}

\* No repository operation is running.
RepoIdle == [o \in RepoOps |-> [pc |-> "idle"]]

\* No call has been made: empty cache table, empty in-flight map.
CallsIdle ==
    /\ aiSuggestions = {}
    /\ inFlight = <<>>
    /\ promises = <<>>
    /\ pc = [c \in Calls |-> "idle"]
    /\ params = [c \in Calls |-> NoParams]
    /\ result = [c \in Calls |-> NoResult]
    /\ del = [c \in Calls |-> <<>>]
    /\ joined = [c \in Calls |-> 0]
    /\ concurrent = [c \in Calls |-> 0]
    /\ before = {}
    /\ tasks = {}
    /\ uiTasks = {}
    /\ repoOp = RepoIdle
    /\ started = 0

\* No signature has been compared.
NoPair == [phase |-> "idle"]
SigIdle == sigPair = NoPair

\* No nudge has been detected or dismissed.
NudgeIdle ==
    nudgeTasks = <<>> /\ cooldowns = <<>> /\ nudgeRuns = <<>> /\ dismissals = <<>>

\* No state has been inferred.
InferIdle == inference = [phase |-> "idle"]

\* No admission has been noted, no reply parsed and no focus toggled.
PathIdle ==
    admitted = {} /\ parsed = [phase |-> "idle"] /\ focus = [phase |-> "idle"]

LibIdle == SigIdle /\ NudgeIdle /\ InferIdle /\ PathIdle

OrchIdle == CallsIdle /\ LibIdle

Init ==
    /\ now = 0
    /\ ticks = 0
    /\ rateLimits = EmptyLimits
    /\ probe = NoProbe
    /\ lastCheck = NoCheck
    /\ OrchIdle

Pending(q) == promises[q].state \in {"fetch", "backoff", "save"}
Settled(q) == promises[q].state \in {"fulfilled", "rejected"}

\* const inflightKey = params.taskSignature || params.taskId || params.taskText
InflightKey(p) == OrElse(p.taskSignature, OrElse(p.taskId, p.taskText))

\* requestAISuggestions(p) is called and getCachedSuggestions resumes after
\* its read of the table (lines 214-221, 122-139).  Between the call and the
\* read the call touches nothing shared, so both are one step, taken when the
\* read is served.  Calls are numbered in the order they are served.
Request(c, p) ==
    /\ pc[c] = "idle"
    /\ \A d \in Calls : d < c => pc[d] # "idle"
    /\ LET g == getCachedSuggestions(aiSuggestions, p.taskId,
                                     getSignatureFromParams(p), now)
       IN  IF g.hit
           THEN /\ pc' = [pc EXCEPT ![c] = "done"]
                /\ params' = [params EXCEPT ![c] = p]
                /\ result' = [result EXCEPT ![c] = g.value]
                /\ del' = del
           ELSE IF g.evict
           THEN /\ pc' = [pc EXCEPT ![c] = "cacheDelete"]
                /\ params' = [params EXCEPT ![c] = p]
                /\ del' = [del EXCEPT ![c] = g.id]
                /\ result' = result
           ELSE /\ pc' = [pc EXCEPT ![c] = "rateCheck"]
                /\ params' = [params EXCEPT ![c] = p]
                /\ UNCHANGED <<result, del>>
    /\ UNCHANGED <<now, ticks, rateLimits, aiSuggestions, inFlight, promises,
                   joined, concurrent, probe, lastCheck,
                   before, tasks, uiTasks, repoOp, started, libVars>>

\* await db.aiSuggestions.delete(record.id) completes (line 131).
CacheDelete(c) ==
    /\ pc[c] = "cacheDelete"
    /\ aiSuggestions' = DeleteById(aiSuggestions, del[c])
    /\ pc' = [pc EXCEPT ![c] = "rateCheck"]
    /\ del' = [del EXCEPT ![c] = <<>>]
    /\ UNCHANGED <<now, ticks, rateLimits, inFlight, promises, params, result,
                   joined, concurrent, probe, lastCheck,
                   before, tasks, uiTasks, repoOp, started, libVars>>

\* The promise created at line 238: fetchWithRetry has issued its first fetch.
\* `last` is the response the latest attempt received, `sleeps` the backoff
\* delays it has asked setTimeout for so far.
NewPromise(c, key) ==
    [key |-> key, state |-> "fetch", i |-> 0, onlyRetryable |-> TRUE,
     last |-> NoResponse, sleeps |-> <<>>,
     lastError |-> NoResult, value |-> NoResult, save |-> [write |-> FALSE]]

\* What is left of a promise once its async function has returned: its
\* settlement, and the key it was registered under.  The locals of
\* fetchWithRetry are gone.
Returned(P) ==
    [key |-> P.key, state |-> P.state, i |-> 0, onlyRetryable |-> FALSE,
     last |-> NoResponse, sleeps |-> <<>>,
     lastError |-> NoResult, value |-> P.value, save |-> [write |-> FALSE]]

\* Lines 223-248, which run without suspension: the rate check, then the
\* in-flight lookup, then the creation and registration of the promise.
Dispatch(c) ==
    /\ pc[c] = "rateCheck"
    /\ LET p == params[c]
           r == checkRateLimits(rateLimits, p, now)
           key == InflightKey(p)
           same == {q \in DOMAIN promises :
                       promises[q].key = key
                       /\ promises[q].state \in {"fetch", "backoff"}}
       IN  /\ rateLimits' = r.limits
           /\ concurrent' = [concurrent EXCEPT ![c] =
                                IF same = {} THEN 0 ELSE CHOOSE q \in same : TRUE]
           /\ IF ~r.ok
              THEN /\ pc' = [pc EXCEPT ![c] = "done"]
                   /\ result' = [result EXCEPT ![c] = RateLimitedResult(r.message)]
                   /\ params' = [params EXCEPT ![c] = NoParams]
                   /\ UNCHANGED <<inFlight, promises, joined>>
              ELSE IF InFlightHas(inFlight, key)
              THEN /\ pc' = [pc EXCEPT ![c] = "awaitShared"]
                   /\ joined' = [joined EXCEPT ![c] = inFlight[key]]
                   /\ UNCHANGED <<inFlight, promises, result, params>>
              ELSE /\ pc' = [pc EXCEPT ![c] = "awaitOwn"]
                   /\ promises' = [q \in DOMAIN promises \cup {c} |->
                                     IF q = c THEN NewPromise(c, key)
                                     ELSE promises[q]]
                   /\ inFlight' = [k \in DOMAIN inFlight \cup {key} |->
                                     IF k = key THEN c ELSE inFlight[k]]
                   /\ UNCHANGED <<joined, result, params>>
    /\ UNCHANGED <<now, ticks, aiSuggestions, del, probe, lastCheck,
                   before, tasks, uiTasks, repoOp, started, libVars>>

\* One attempt() of promise q settles with the response resp, and the loop
\* of fetchWithRetry runs on to its next suspension (lines 192-207, 239-244);
\* rnd is what Math.random() returns if the loop goes to sleep.
AttemptSettles(q, resp, rnd) ==
    /\ q \in DOMAIN promises
    /\ promises[q].state = "fetch"
    /\ LET P == [promises[q] EXCEPT !.last = resp]
           a == attempt(resp)
       IN  promises' = [promises EXCEPT ![q] =
             IF a.threw
             THEN [P EXCEPT !.state = "rejected", !.onlyRetryable = FALSE]
             ELSE LET next == afterAttempt(P.i, a.result)
                      retry == ~a.result.success /\ isRetryable(a.result)
                  IN  IF a.result.success
                      THEN [P EXCEPT
                               !.state = "save",
                               !.onlyRetryable = FALSE,
                               !.save = saveSuggestions(
                                           params[q].taskId,
                                           getSignatureFromParams(params[q]),
                                           a.result.suggestions, now),
                               !.value = [a.result EXCEPT !.success = TRUE]
                                            @@ [fromCache |-> FALSE]]
                      ELSE IF next = "return"
                      THEN [P EXCEPT !.state = "fulfilled",
                                     !.onlyRetryable = P.onlyRetryable /\ retry,
                                     !.value = a.result]
                      ELSE IF next = "sleep"
                      THEN [P EXCEPT !.state = "backoff",
                                     !.sleeps = Append(@, backoffMs(P.i, rnd)),
                                     !.onlyRetryable = P.onlyRetryable /\ retry,
                                     !.lastError = a.result]
                      ELSE [P EXCEPT !.state = "fulfilled",
                                     !.onlyRetryable = P.onlyRetryable /\ retry,
                                     !.lastError = a.result,
                                     !.value = a.result]]
    /\ UNCHANGED <<now, ticks, rateLimits, aiSuggestions, inFlight, pc, params,
                   result, del, joined, concurrent, probe, lastCheck,
                   before, tasks, uiTasks, repoOp, started, libVars>>

\* The backoff timer of promise q fires; i++ and the next attempt is issued.
BackoffDone(q) ==
    /\ q \in DOMAIN promises
    /\ promises[q].state = "backoff"
    /\ promises' = [promises EXCEPT ![q] =
          [@ EXCEPT !.state = "fetch", !.i = @ + 1]]
    /\ UNCHANGED <<now, ticks, rateLimits, aiSuggestions, inFlight, pc, params,
                   result, del, joined, concurrent, probe, lastCheck,
                   before, tasks, uiTasks, repoOp, started, libVars>>

\* await saveSuggestions(...) completes (line 241) and the promise fulfils.
SaveDone(q) ==
    /\ q \in DOMAIN promises
    /\ promises[q].state = "save"
    /\ aiSuggestions' = IF promises[q].save.write
                        THEN Put(aiSuggestions, promises[q].save.record)
                        ELSE aiSuggestions
    /\ promises' = [promises EXCEPT ![q] = [@ EXCEPT !.state = "fulfilled"]]
    /\ UNCHANGED <<now, ticks, rateLimits, inFlight, pc, params, result, del,
                   joined, concurrent, probe, lastCheck,
                   before, tasks, uiTasks, repoOp, started, libVars>>

\* A finally callback that leaves the map as it is.
InFlightDelete_Keep(map, key) == map

\* inFlight.delete(key)
InFlightDelete(map, key) == [k \in DOMAIN map \ {key} |-> map[k]]

\* promise.finally(() => inFlight.delete(inflightKey)) runs and the creating
\* call returns the result, or rethrows (lines 248-249).
Finally(c) ==
    /\ pc[c] = "awaitOwn"
    /\ Settled(c)
    /\ inFlight' = InFlightDelete(inFlight, promises[c].key)
    /\ promises' = [promises EXCEPT ![c] = Returned(@)]
    /\ IF promises[c].state = "fulfilled"
       THEN /\ pc' = [pc EXCEPT ![c] = "done"]
            /\ result' = [result EXCEPT ![c] = promises[c].value]
       ELSE /\ pc' = [pc EXCEPT ![c] = "thrown"]
            /\ result' = result
    /\ params' = [params EXCEPT ![c] = NoParams]
    /\ UNCHANGED <<now, ticks, rateLimits, aiSuggestions, del, joined,
                   concurrent, probe, lastCheck,
                   before, tasks, uiTasks, repoOp, started, libVars>>

\* A call that returned the in-flight promise (line 235) settles with it.
JoinSettles(c) ==
    /\ pc[c] = "awaitShared"
    /\ Settled(joined[c])
    /\ IF promises[joined[c]].state = "fulfilled"
       THEN /\ pc' = [pc EXCEPT ![c] = "done"]
            /\ result' = [result EXCEPT ![c] = promises[joined[c]].value]
       ELSE /\ pc' = [pc EXCEPT ![c] = "thrown"]
            /\ result' = result
    /\ params' = [params EXCEPT ![c] = NoParams]
    /\ UNCHANGED <<now, ticks, rateLimits, aiSuggestions, inFlight, promises,
                   del, joined, concurrent, probe, lastCheck,
                   before, tasks, uiTasks, repoOp, started, libVars>>

\* Time passes: more than the per-task 5 min window.
Tick ==
    /\ ticks < MaxTicks
    /\ now' = now + RATE_CONFIG["perTask5m"].windowMs + 1
    /\ ticks' = ticks + 1
    /\ UNCHANGED <<rateLimits, probe, lastCheck>>
    /\ UNCHANGED <<orchVars, libVars>>

Next ==
    \/ \E c \in Calls : \E p \in CallParams : Request(c, p)
    \/ \E c \in Calls : CacheDelete(c)
    \/ \E c \in Calls : Dispatch(c)
    \/ \E q \in Calls : \E resp \in CoreResponses : \E rnd \in CoreRandom :
          AttemptSettles(q, resp, rnd)
    \/ \E q \in Calls : BackoffDone(q)
    \/ \E q \in Calls : SaveDone(q)
    \/ \E c \in Calls : Finally(c)
    \/ \E c \in Calls : JoinSettles(c)
    \/ Tick

Spec == Init /\ [][Next]_vars

\* SpecFetch: a single call, against every response of Responses.
FetchNext ==
    \/ \E p \in FetchParams : Request(1, p)
    \/ Dispatch(1)
    \/ \E resp \in Responses : \E rnd \in RandomSamples :
          AttemptSettles(1, resp, rnd)
    \/ BackoffDone(1)
    \/ SaveDone(1)
    \/ Finally(1)

SpecFetch == Init /\ [][FetchNext]_vars

-----------------------------------------------------------------------------
(* SpecCache: calls made one after the other, over more than a day *)

\* The task before and after an edit, and the quick-add input.
CacheParams == {ParamA, ParamA2, ParamC}

\* A success, a success without suggestions, and two failures.
CacheResponses == {RespOk, RespOkEmpty, RespBadRequest, RespProviderNoMessage}

NoCallActive == \A c \in Calls : pc[c] \in {"idle", "done", "thrown"}

\* The observer notes the table while no call is running.
Observe ==
    /\ NoCallActive
    /\ before # aiSuggestions
    /\ before' = aiSuggestions
    /\ UNCHANGED <<now, ticks, rateLimits, aiSuggestions, inFlight, promises,
                   pc, params, result, del, joined, concurrent, probe,
                   lastCheck, tasks, uiTasks, repoOp, started, libVars>>

\* requestAISuggestions(p) is called when the previous call has returned.
CacheRequest(c, p) ==
    /\ NoCallActive
    /\ before = aiSuggestions
    /\ Request(c, p)

\* Time passes: a millisecond, or the cache's time to live.
CacheTick ==
    /\ ticks < MaxCacheTicks
    /\ \E step \in {1, CACHE_TTL_MS} : now' = now + step
    /\ ticks' = ticks + 1
    /\ UNCHANGED <<rateLimits, probe, lastCheck>>
    /\ UNCHANGED <<orchVars, libVars>>

CacheNext ==
    \/ \E c \in Calls : \E p \in CacheParams : CacheRequest(c, p)
    \/ \E c \in Calls : CacheDelete(c)
    \/ \E c \in Calls : Dispatch(c)
    \/ \E q \in Calls : \E resp \in CacheResponses : \E rnd \in CoreRandom :
          AttemptSettles(q, resp, rnd)
    \/ \E q \in Calls : BackoffDone(q)
    \/ \E q \in Calls : SaveDone(q)
    \/ \E c \in Calls : Finally(c)
    \/ Observe
    \/ CacheTick

SpecCache == Init /\ [][CacheNext]_vars

-----------------------------------------------------------------------------
(* SpecRepo: taskRepository operations running alongside the calls *)

envVars == <<now, ticks, rateLimits, probe, lastCheck>>

\* The seed task that comes with suggestions, and an edit of its text.
SeedTask ==
    [id |-> <<"t1">>, text |-> <<"a">>, importance |-> "high",
     urgency |-> "low", dueDate |-> Null]
SeedSuggestions == <<"seed step">>
TaskTexts == {<<"a">>, <<"a", "2">>}

\* generateId(): an id no other record has
GeneratedId == <<"generated-id">>

\* computeSignature(task)
computeSignature(task) ==
    buildTaskSignature([text |-> task.text, importance |-> task.importance,
                        urgency |-> task.urgency, dueDate |-> task.dueDate])

\* The params the task card passes for the task as the UI holds it.
ParamsOf(task) ==
    [taskId |-> task.id, taskText |-> task.text,
     taskSignature |-> computeSignature(task)]

\* db.tasks.get(id): the rows of that id (none or one)
GetById(id) == {t \in tasks : t.id = id}

\* db.aiSuggestions.where('taskId').equals(taskId).delete()
DeleteWhereTaskId(store, taskId) == {r \in store : r.taskId # taskId}

\* isActiveSuggestion(record, signature)
isActiveSuggestion(record, signature) ==
    record.status = "active" /\ record.taskSignature = signature

\* Mutant: no update is taken to change the signature.
SignatureChanged_Never(old, new) == FALSE

\* invalidateSuggestionsIfSignatureChanged: the test of its first line
SignatureChanged(old, new) == computeSignature(old) # computeSignature(new)

SetOp(o, value) == [repoOp EXCEPT ![o] = value]

\* taskRepository.create(data, id, seeds) up to the end of db.tasks.add; it
\* returns here when there are no seed suggestions.  The task is new.
CreateAdd(seeds) ==
    /\ repoOp["create"].pc = "idle"
    /\ started < MaxRepoOps
    /\ GetById(SeedTask.id) = {}
    /\ tasks' = tasks \cup {SeedTask}
    /\ repoOp' = SetOp("create",
                       IF Len(seeds) > 0
                       THEN [pc |-> "addSuggestions", task |-> SeedTask,
                             seeds |-> seeds, timestamp |-> now]
                       ELSE [pc |-> "returned"])
    /\ started' = started + 1
    /\ UNCHANGED <<aiSuggestions, uiTasks>>
    /\ UNCHANGED <<envVars, libVars>>
    /\ UNCHANGED callVars

\* create: db.aiSuggestions.add of the seed record (lines 224-236).
CreateAddSuggestions ==
    /\ repoOp["create"].pc = "addSuggestions"
    /\ LET op == repoOp["create"]
       IN  aiSuggestions' = aiSuggestions \cup
             {[id |-> GeneratedId,
               taskId |-> op.task.id,
               suggestions |-> op.seeds,
               taskSignature |-> computeSignature(op.task),
               status |-> "active",
               createdAt |-> ToISOString(op.timestamp),
               expiresAt |-> ToISOString(now + 24 * 60 * 60 * 1000)]}
    /\ repoOp' = SetOp("create", [pc |-> "returned"])
    /\ UNCHANGED <<tasks, uiTasks, started, libVars>>
    /\ UNCHANGED <<envVars, libVars>>
    /\ UNCHANGED callVars

\* taskRepository.update({id, text}) for a task the UI shows, up to the
\* second getById (lines 244-258): the row is rewritten.
UpdateTask(text) ==
    /\ repoOp["update"].pc = "idle"
    /\ started < MaxRepoOps
    /\ \E u \in uiTasks : \E old \in GetById(u.id) :
          LET new == [old EXCEPT !.text = text]
          IN  /\ tasks' = (tasks \ {old}) \cup {new}
              /\ repoOp' = SetOp("update", [pc |-> "invalidate", old |-> old,
                                            new |-> new, removed |-> {}])
    /\ started' = started + 1
    /\ UNCHANGED <<aiSuggestions, uiTasks>>
    /\ UNCHANGED <<envVars, libVars>>
    /\ UNCHANGED callVars

\* update: invalidateSuggestionsIfSignatureChanged(before, updated) runs and
\* update returns.  `removed` notes the records it deleted.
Invalidate ==
    /\ repoOp["update"].pc = "invalidate"
    /\ LET op == repoOp["update"]
           changed == SignatureChanged(op.old, op.new)
           kept == IF changed THEN DeleteWhereTaskId(aiSuggestions, op.new.id)
                   ELSE aiSuggestions
       IN  /\ aiSuggestions' = kept
           /\ repoOp' = SetOp("update", [op EXCEPT !.pc = "idle",
                                            !.removed = aiSuggestions \ kept])
    /\ UNCHANGED <<tasks, uiTasks, started, libVars>>
    /\ UNCHANGED <<envVars, libVars>>
    /\ UNCHANGED callVars

\* taskRepository.markSuggestionsConsumed(taskId): the read of the record.
ConsumeRead ==
    /\ repoOp["consume"].pc = "idle"
    /\ started < MaxRepoOps
    /\ \E u \in uiTasks :
          LET found == WhereTaskId(aiSuggestions, u.id)
          IN  repoOp' = SetOp("consume",
                             IF found = {} THEN [pc |-> "idle"]
                             ELSE [pc |-> "update",
                                   id |-> (CHOOSE r \in found : TRUE).id])
    /\ started' = started + 1
    /\ UNCHANGED <<aiSuggestions, tasks, uiTasks>>
    /\ UNCHANGED <<envVars, libVars>>
    /\ UNCHANGED callVars

\* markSuggestionsConsumed: db.aiSuggestions.update(id, {status: 'consumed'})
ConsumeUpdate ==
    /\ repoOp["consume"].pc = "update"
    /\ aiSuggestions' = {IF r.id = repoOp["consume"].id
                          THEN [r EXCEPT !.status = "consumed"] ELSE r :
                          r \in aiSuggestions}
    /\ repoOp' = SetOp("consume", [pc |-> "idle"])
    /\ UNCHANGED <<tasks, uiTasks, started, libVars>>
    /\ UNCHANGED <<envVars, libVars>>
    /\ UNCHANGED callVars

\* taskRepository.delete(id) for a task the UI shows: the deletion of its
\* suggestion records (line 416).
DeleteSuggestions ==
    /\ repoOp["delete"].pc = "idle"
    /\ started < MaxRepoOps
    /\ \E u \in uiTasks :
          /\ aiSuggestions' = DeleteWhereTaskId(aiSuggestions, u.id)
          /\ repoOp' = SetOp("delete", [pc |-> "deleteTask", id |-> u.id])
    /\ started' = started + 1
    /\ UNCHANGED <<tasks, uiTasks>>
    /\ UNCHANGED <<envVars, libVars>>
    /\ UNCHANGED callVars

\* delete: db.tasks.delete(id), then useTasks drops the task from its state.
DeleteTask ==
    /\ repoOp["delete"].pc = "deleteTask"
    /\ tasks' = {t \in tasks : t.id # repoOp["delete"].id}
    /\ uiTasks' = {t \in uiTasks : t.id # repoOp["delete"].id}
    /\ repoOp' = SetOp("delete", [pc |-> "idle"])
    /\ UNCHANGED <<aiSuggestions, started, libVars>>
    /\ UNCHANGED <<envVars, libVars>>
    /\ UNCHANGED callVars

\* loadTasks: getAllWithDetails reads the task rows (line 155).
LoadGetAll ==
    /\ repoOp["load"].pc = "idle"
    /\ started < MaxRepoOps
    /\ repoOp' = SetOp("load", [pc |-> "readDetails", rows |-> tasks])
    /\ started' = started + 1
    /\ UNCHANGED <<aiSuggestions, tasks, uiTasks>>
    /\ UNCHANGED <<envVars, libVars>>
    /\ UNCHANGED callVars

\* The record ids getAllWithDetails collects for deletion, given for each
\* task the record the map suggestionsByTaskId ended up with.
CleanupIds(rows, pick) ==
    {pick[t.id].id : t \in {x \in rows :
        /\ x.id \in DOMAIN pick
        /\ ~isActiveSuggestion(pick[x.id], computeSignature(x))}}

\* The records whose suggestions getAllWithDetails reports as the
\* aiSuggestions of their tasks.
Shown(rows, pick) ==
    {pick[t.id] : t \in {x \in rows :
        /\ x.id \in DOMAIN pick
        /\ isActiveSuggestion(pick[x.id], computeSignature(x))}}

\* getAllWithDetails reads the suggestion records (lines 156-188); with
\* nothing to clean up it returns and loadTasks sets the state.  Which of
\* several records of one task the map keeps depends on their ids.
LoadReadDetails ==
    /\ repoOp["load"].pc = "readDetails"
    /\ LET rows == repoOp["load"].rows
           withRecord == {t.id : t \in {x \in rows :
                                          WhereTaskId(aiSuggestions, x.id) # {}}}
       IN  \E pick \in [withRecord -> aiSuggestions] :
             /\ \A id \in withRecord : pick[id].taskId = id
             /\ IF CleanupIds(rows, pick) = {}
                THEN /\ uiTasks' = rows
                     /\ repoOp' = SetOp("load", [pc |-> "idle",
                                                 shown |-> Shown(rows, pick)])
                ELSE /\ uiTasks' = uiTasks
                     /\ repoOp' = SetOp("load",
                                        [pc |-> "cleanup", rows |-> rows,
                                         ids |-> CleanupIds(rows, pick),
                                         shown |-> Shown(rows, pick)])
    /\ UNCHANGED <<aiSuggestions, tasks, started, libVars>>
    /\ UNCHANGED <<envVars, libVars>>
    /\ UNCHANGED callVars

\* getAllWithDetails: bulkDelete(cleanupIds); then loadTasks sets the state.
LoadCleanup ==
    /\ repoOp["load"].pc = "cleanup"
    /\ aiSuggestions' = {r \in aiSuggestions : r.id \notin repoOp["load"].ids}
    /\ uiTasks' = repoOp["load"].rows
    /\ repoOp' = SetOp("load", [pc |-> "idle",
                                shown |-> repoOp["load"].shown])
    /\ UNCHANGED <<tasks, started, libVars>>
    /\ UNCHANGED <<envVars, libVars>>
    /\ UNCHANGED callVars

RepoCalls == 1..MaxRepoCalls

\* The answers the route gives in this specification.
RepoResponses == {RespOk, RespBadRequest}

\* The task card asks for a breakdown of a task the UI shows.
RepoRequest(c) == \E u \in uiTasks : Request(c, ParamsOf(u))

RepoNext ==
    \/ \E seeds \in {<<>>, SeedSuggestions} : CreateAdd(seeds)
    \/ CreateAddSuggestions
    \/ \E text \in TaskTexts : UpdateTask(text)
    \/ Invalidate
    \/ ConsumeRead
    \/ ConsumeUpdate
    \/ DeleteSuggestions
    \/ DeleteTask
    \/ LoadGetAll
    \/ LoadReadDetails
    \/ LoadCleanup
    \/ \E c \in RepoCalls : RepoRequest(c)
    \/ \E c \in RepoCalls : CacheDelete(c)
    \/ \E c \in RepoCalls : Dispatch(c)
    \/ \E q \in RepoCalls : \E resp \in RepoResponses : \E rnd \in CoreRandom :
          AttemptSettles(q, resp, rnd)
    \/ \E q \in RepoCalls : SaveDone(q)
    \/ \E c \in RepoCalls : Finally(c)

SpecRepo == Init /\ [][RepoNext]_vars

-----------------------------------------------------------------------------
(* SpecBucket: withinLimit called directly on one bucket and key *)

ProbeKey(bucket) ==
    IF bucket \in {"perTask5m", "perTask1h"}
    THEN buildRateKey(ParamA).taskKey
    ELSE buildRateKey(ParamA).userKey

Min(a, b) == IF a <= b THEN a ELSE b

BucketInit ==
    /\ now = 0
    /\ ticks = 0
    /\ rateLimits = EmptyLimits
    /\ lastCheck = NoCheck
    /\ OrchIdle
    /\ \E b \in RateBucket :
          probe = [bucket |-> b, key |-> ProbeKey(b), first |-> -1,
                   calls |-> 0, late |-> 0, rejected |-> FALSE,
                   lastOk |-> FALSE, lastNow |-> 0]

\* One call of withinLimit(probe.bucket, probe.key) at the current time.
BucketCall ==
    LET cfg == RATE_CONFIG[probe.bucket]
        r == withinLimit(rateLimits, probe.bucket, probe.key, now)
        first == IF probe.first = -1 /\ r.ok THEN now ELSE probe.first
        isLate == first # -1 /\ now - first > cfg.windowMs
    IN  /\ rateLimits' = r.limits
        /\ probe' = [probe EXCEPT
                        !.first = first,
                        !.calls = Min(probe.calls + 1, cfg.max + 2),
                        !.late = IF isLate THEN Min(probe.late + 1, 2)
                                 ELSE probe.late,
                        !.rejected = probe.rejected \/ (~r.ok /\ ~isLate),
                        !.lastOk = r.ok,
                        !.lastNow = now]
        /\ UNCHANGED <<now, ticks, lastCheck>>
        /\ UNCHANGED <<orchVars, libVars>>

\* The clock advances by 1 ms or by the bucket's whole window.
BucketTick ==
    /\ ticks < MaxBucketTicks
    /\ \E step \in {1, RATE_CONFIG[probe.bucket].windowMs} : now' = now + step
    /\ ticks' = ticks + 1
    /\ UNCHANGED <<rateLimits, probe, lastCheck>>
    /\ UNCHANGED <<orchVars, libVars>>

BucketNext == BucketCall \/ BucketTick

SpecBucket == BucketInit /\ [][BucketNext]_vars

-----------------------------------------------------------------------------
(* SpecRate: checkRateLimits called for several task keys over time *)

RateStep == RATE_CONFIG["perTask5m"].windowMs + 1

\* The limiter after the calls of `calls` (each a request p at time t).
RECURSIVE Replay(_, _)
Replay(limits, calls) ==
    IF calls = <<>> THEN limits
    ELSE Replay(checkRateLimits(limits, Head(calls).p, Head(calls).t).limits,
                Tail(calls))

\* Two earlier rounds of three requests, RateStep apart.
Warmup ==
    <<[p |-> ParamA, t |-> 0], [p |-> ParamB, t |-> 0], [p |-> ParamC, t |-> 0],
      [p |-> ParamA, t |-> RateStep], [p |-> ParamB, t |-> RateStep],
      [p |-> ParamC, t |-> RateStep]>>

\* The limiter as constructed, or as those two rounds of requests left it.
RateInit ==
    /\ ticks = 0
    /\ probe = NoProbe
    /\ lastCheck = NoCheck
    /\ OrchIdle
    /\ \/ now = 0 /\ rateLimits = EmptyLimits
       \/ now = 2 * RateStep /\ rateLimits = Replay(EmptyLimits, Warmup)

RateCheck(p) ==
    LET r == checkRateLimits(rateLimits, p, now)
    IN  /\ rateLimits' = r.limits
        /\ lastCheck' = [called |-> TRUE, p |-> p, at |-> now,
                         pre |-> rateLimits, ok |-> r.ok,
                         message |-> r.message]
        /\ UNCHANGED <<now, ticks, probe>>
        /\ UNCHANGED <<orchVars, libVars>>

\* The clock advances just past the 5 min window.
RateTick ==
    /\ ticks < MaxRateTicks
    /\ now' = now + RateStep
    /\ ticks' = ticks + 1
    /\ lastCheck' = NoCheck
    /\ UNCHANGED <<rateLimits, probe>>
    /\ UNCHANGED <<orchVars, libVars>>

RateNext == (\E p \in RateParams : RateCheck(p)) \/ RateTick

SpecRate == RateInit /\ [][RateNext]_vars

-----------------------------------------------------------------------------
(* The task signature on its own: a task as created, and a later snapshot
   of it, each given to computeSignature *)

\* What a task text is made of here: a blank, the separator of the
\* signature, and a word that is also a field value.
SigSymbols == {" ", "|", "high"}

SigTexts == UNION {[1..k -> SigSymbols] : k \in 0..MaxSigTextLen}

\* dueDate: string | null
DueDates == {Null, <<>>, <<"2026-11-04">>}

Levels == {"high", "low"}

\* A task of any content, and a task as taskRepository.create leaves it.
Snapshots ==
    [text : SigTexts, importance : Levels, urgency : Levels,
     dueDate : DueDates, completed : BOOLEAN, subTasks : {<<>>, <<"s1">>}]

CreatedSnapshots == {t \in Snapshots : ~t.completed /\ t.subTasks = <<>>}

SigInit ==
    /\ now = 0
    /\ ticks = 0
    /\ rateLimits = EmptyLimits
    /\ probe = NoProbe
    /\ lastCheck = NoCheck
    /\ CallsIdle
    /\ PathIdle
    /\ NudgeIdle
    /\ InferIdle
    /\ \E t \in CreatedSnapshots : sigPair = [phase |-> "created", a |-> t]

\* The task has become snapshot t; both snapshots are signed.
SigCompare(t) ==
    /\ sigPair.phase = "created"
    /\ sigPair' = [phase |-> "compared", a |-> sigPair.a, b |-> t,
                   sa |-> computeSignature(sigPair.a),
                   sb |-> computeSignature(t)]
    /\ UNCHANGED <<envVars, orchVars, pathVars, nudgeVars, inference>>

SigNext == \E t \in Snapshots : SigCompare(t)

SpecSig == SigInit /\ [][SigNext]_vars

-----------------------------------------------------------------------------
(* Nudge service *)

NUDGE_COOLDOWN_MS == 24 * 60 * 60 * 1000
MAX_BADGES == 3
COMPLEX_TASK_LENGTH == 50

NUDGE_PRIORITY ==
    [overdue |-> 1, repeatedly_postponed |-> 2, long_pending |-> 3,
     needs_breakdown |-> 99]

DayMs == 24 * 60 * 60 * 1000

\* A YYYY-MM-DD string, written as ToISOString writes its date: by the
\* day number since the epoch.
DateString(day) == <<"day", day>>

\* parseLocalDate(dateStr): midnight of that day; local time is UTC here
parseLocalDate(dateStr) == dateStr[2] * DayMs

\* date-fns startOfDay(new Date(t))
startOfDay(t) == t - (t % DayMs)

\* isOverdue(dateStr) at time t
isOverdue(dateStr, t) == parseLocalDate(dateStr) < startOfDay(t)

\* getCooldownKey
getCooldownKey(taskId, type) == taskId \o <<":", type>>

\* map[key] = value on a Record<string, string>
MapSet(map, key, value) ==
    [k \in (DOMAIN map) \cup {key} |-> IF k = key THEN value ELSE map[k]]

\* delete map[key]
MapDelete(map, key) == [k \in (DOMAIN map) \ {key} |-> map[k]]

\* Mutant: a cooldown still holds at the moment it runs out.
isOnCooldown_Late(taskId, type, map, t) ==
    LET key == getCooldownKey(taskId, type)
    IN  IF key \notin DOMAIN map
        THEN [on |-> FALSE, map |-> map]
        ELSE IF GetTime(map[key]) < t
             THEN [on |-> FALSE, map |-> MapDelete(map, key)]
             ELSE [on |-> TRUE, map |-> map]

\* isOnCooldown(taskId, type, map, now): its verdict and the map as it
\* leaves it.  The values of the map are written by toISOString only.
isOnCooldown(taskId, type, map, t) ==
    LET key == getCooldownKey(taskId, type)
    IN  IF key \notin DOMAIN map
        THEN [on |-> FALSE, map |-> map]
        ELSE IF GetTime(map[key]) <= t
             THEN [on |-> FALSE, map |-> MapDelete(map, key)]
             ELSE [on |-> TRUE, map |-> map]

\* setNudgeCooldown(taskId, type) at time t: the map it saves
setNudgeCooldown(map, taskId, type, t) ==
    MapSet(map, getCooldownKey(taskId, type),
           ToISOString(t + NUDGE_COOLDOWN_MS))

\* isTaskOverdue
isTaskOverdue(task, t) ==
    IF task.dueDate = Null \/ task.dueDate = <<>> \/ task.completed
    THEN FALSE
    ELSE isOverdue(task.dueDate, t)

\* Mutant: a text of exactly COMPLEX_TASK_LENGTH characters counts as long.
taskNeedsBreakdown_AtLength(task) ==
    IF task.completed THEN FALSE
    ELSE IF Len(task.subTasks) > 0 THEN FALSE
    ELSE IF Len(task.aiSuggestions) > 0 THEN FALSE
    ELSE Len(task.text) >= COMPLEX_TASK_LENGTH

\* taskNeedsBreakdown
taskNeedsBreakdown(task) ==
    IF task.completed THEN FALSE
    ELSE IF Len(task.subTasks) > 0 THEN FALSE
    ELSE IF Len(task.aiSuggestions) > 0 THEN FALSE
    ELSE Len(task.text) > COMPLEX_TASK_LENGTH

\* A TaskNudge as detectTaskNudges builds it.
NewNudge(type, taskId, showBadge, t) ==
    [type |-> type, taskId |-> taskId, priority |-> NUDGE_PRIORITY[type],
     showBadge |-> showBadge, detectedAt |-> ToISOString(t),
     dismissedAt |-> Null, cooldownUntil |-> Null]

\* detectTaskNudges(task) at time t
detectTaskNudges(task, t) ==
    (IF isTaskOverdue(task, t)
     THEN <<NewNudge("overdue", task.id, TRUE, t)>> ELSE <<>>)
    \o (IF taskNeedsBreakdown(task)
        THEN <<NewNudge("needs_breakdown", task.id, FALSE, t)>> ELSE <<>>)

\* detectTaskNudges(task).filter(nudge => !isOnCooldown(...)): the nudges
\* kept and the map as the calls of isOnCooldown leave it.
RECURSIVE FilterCooldown(_, _, _, _)
FilterCooldown(taskId, nudges, map, t) ==
    IF nudges = <<>>
    THEN [kept |-> <<>>, map |-> map]
    ELSE LET c == isOnCooldown(taskId, Head(nudges).type, map, t)
             rest == FilterCooldown(taskId, Tail(nudges), c.map, t)
         IN  [kept |-> (IF c.on THEN <<>> ELSE <<Head(nudges)>>) \o rest.kept,
              map |-> rest.map]

\* The loop of detectAllNudges (lines 189-199) over the tasks left, from
\* the result, the badge candidates and the cooldown map gathered so far.
RECURSIVE Collect(_, _, _)
Collect(list, acc, t) ==
    IF list = <<>>
    THEN acc
    ELSE LET task == Head(list)
             f == FilterCooldown(task.id, detectTaskNudges(task, t), acc.map, t)
         IN  IF task.completed
             THEN Collect(Tail(list), acc, t)
             ELSE IF Len(f.kept) > 0
             THEN Collect(Tail(list),
                          [result |-> MapSet(acc.result, task.id, f.kept),
                           allNudges |-> acc.allNudges \o
                               SelectSeq(f.kept, LAMBDA n : n.showBadge),
                           map |-> f.map], t)
             ELSE Collect(Tail(list), [acc EXCEPT !.map = f.map], t)

\* Mutant: of two nudges of one priority the later one is put first.
StaysBefore_Strict(a, n) == a.priority < n.priority

\* The comparator (a, b) => a.priority - b.priority under a stable sort:
\* a, already placed, stays before the later n unless n compares lower.
StaysBefore(a, n) == a.priority - n.priority <= 0

\* One step of the stable sort: n goes after the nudges that stay before it.
RECURSIVE InsertByPriority(_, _)
InsertByPriority(sorted, n) ==
    IF sorted = <<>>
    THEN <<n>>
    ELSE IF StaysBefore(Head(sorted), n)
         THEN <<Head(sorted)>> \o InsertByPriority(Tail(sorted), n)
         ELSE <<n>> \o sorted

\* allNudges.sort((a, b) => a.priority - b.priority); the sort is stable
RECURSIVE SortByPriority(_)
SortByPriority(nudges) ==
    IF nudges = <<>>
    THEN <<>>
    ELSE InsertByPriority(SortByPriority(SubSeq(nudges, 1, Len(nudges) - 1)),
                          nudges[Len(nudges)])

\* array.slice(0, end)
Slice(array, end) ==
    LET e == IF end < 0
             THEN (IF Len(array) + end < 0 THEN 0 ELSE Len(array) + end)
             ELSE Min(end, Len(array))
    IN  SubSeq(array, 1, e)

\* Mutant: the nudges of a task outside the quota are dropped.
HideBadges_Drop(nudges) == SelectSeq(nudges, LAMBDA n : ~n.showBadge)

\* Lines 212-216: the badges of one task's nudges are switched off.
HideBadges(nudges) ==
    [i \in DOMAIN nudges |-> [nudges[i] EXCEPT !.showBadge = FALSE]]

\* Mutant: the quota is not applied.
ApplyQuota_None(nudgeMap, allNudges, maxBadges) == nudgeMap

\* Lines 202-219: the result after the badge quota.
ApplyQuota(nudgeMap, allNudges, maxBadges) ==
    IF Len(allNudges) > maxBadges
    THEN LET sorted == SortByPriority(allNudges)
             top == Slice(sorted, maxBadges)
             badgeTaskIds == {top[i].taskId : i \in DOMAIN top}
         IN  [id \in DOMAIN nudgeMap |->
                 IF id \in badgeTaskIds THEN nudgeMap[id]
                 ELSE HideBadges(nudgeMap[id])]
    ELSE nudgeMap

\* Mutant: the quota counts the candidates as they were before the cooldown
\* filter.
detectAllNudges_QuotaFirst(list, maxBadges, map, t) ==
    LET c == Collect(list, [result |-> <<>>, allNudges |-> <<>>,
                             map |-> map], t)
        unfiltered == Collect(list, [result |-> <<>>, allNudges |-> <<>>,
                                      map |-> <<>>], t)
    IN  [result |-> ApplyQuota(c.result, unfiltered.allNudges, maxBadges),
         cooldowns |-> c.map]

\* detectAllNudges(list, maxBadges) at time t with `map` in localStorage:
\* the Map it returns and the cooldown map it saves.
detectAllNudges(list, maxBadges, map, t) ==
    LET c == Collect(list, [result |-> <<>>, allNudges |-> <<>>,
                             map |-> map], t)
    IN  [result |-> ApplyQuota(c.result, c.allNudges, maxBadges),
         cooldowns |-> c.map]

-----------------------------------------------------------------------------
(* The badge quota: the page calls detectAllNudges on a task list, at noon
   of day 10 *)

QuotaNow == 10 * DayMs + 12 * 60 * 60 * 1000

TextOfLength(n) == [i \in 1..n |-> "x"]

\* The ids of the tasks of a list, by position.
TaskIdAt(i) == <<"t", i>>

\* The tasks of the lists: overdue, overdue and long, long only, and
\* completed while overdue.
QuotaKinds == {"overdue", "both", "breakdown", "completed"}

QuotaTask(kind, i) ==
    [id |-> TaskIdAt(i),
     text |-> IF kind \in {"both", "breakdown"}
              THEN TextOfLength(COMPLEX_TASK_LENGTH + 1) ELSE TextOfLength(1),
     completed |-> kind = "completed",
     dueDate |-> CASE kind \in {"overdue", "both", "completed"} -> DateString(9)
                   [] kind = "none" -> DateString(10)
                   [] OTHER -> Null,
     subTasks |-> <<>>,
     aiSuggestions |-> <<>>]

QuotaLists ==
    UNION {{[i \in 1..n |-> QuotaTask(kinds[i], i)] :
                kinds \in [1..n -> QuotaKinds]} : n \in 0..MaxNudgeTasks}

\* localStorage as earlier dismissals left it: nothing, a cooldown of the
\* first task's overdue nudge that still runs, or one that has run out.
QuotaCooldowns ==
    {<<>>,
     setNudgeCooldown(<<>>, TaskIdAt(1), "overdue", QuotaNow - 1000),
     setNudgeCooldown(<<>>, TaskIdAt(1), "overdue", QuotaNow - NUDGE_COOLDOWN_MS)}

QuotaInit ==
    /\ now = QuotaNow
    /\ ticks = 0
    /\ rateLimits = EmptyLimits
    /\ probe = NoProbe
    /\ lastCheck = NoCheck
    /\ CallsIdle
    /\ PathIdle
    /\ SigIdle
    /\ InferIdle
    /\ nudgeTasks \in QuotaLists
    /\ cooldowns \in QuotaCooldowns
    /\ nudgeRuns = <<>>
    /\ dismissals = <<>>

\* A call of detectAllNudges(nudgeTasks, maxBadges) now, as it is noted:
\* the inputs it had, the Map it returned, the cooldown map it saved and
\* the dismissals made before it.
Run(maxBadges) ==
    LET r == detectAllNudges(nudgeTasks, maxBadges, cooldowns, now)
    IN  [maxBadges |-> maxBadges, at |-> now, before |-> cooldowns,
         result |-> r.result, after |-> r.cooldowns, seen |-> dismissals]

\* detectAllNudges(nudgeTasks, maxBadges) runs: the call is noted and the
\* cooldown map it saves replaces the stored one.
Detect(maxBadges) ==
    /\ nudgeRuns' = Append(nudgeRuns, Run(maxBadges))
    /\ cooldowns' = Run(maxBadges).after
    /\ UNCHANGED <<envVars, orchVars, pathVars, sigPair, nudgeTasks, dismissals,
                   inference>>

\* The page renders: detectAllNudges with a quota, and once more with the
\* same quota.
QuotaDetect(maxBadges) ==
    /\ Len(nudgeRuns) < 2
    /\ Len(nudgeRuns) = 1 => maxBadges = nudgeRuns[1].maxBadges
    /\ Detect(maxBadges)

QuotaNext == \E maxBadges \in 0..MaxNudgeTasks : QuotaDetect(maxBadges)

SpecQuota == QuotaInit /\ [][QuotaNext]_vars

-----------------------------------------------------------------------------
(* Nudge cooldowns: the page shows two tasks, the user dismisses nudges and
   time passes *)

\* Overdue and long, or due today: overdue from the next day on.
CooldownKinds == {"both", "none"}

CooldownLists ==
    {[i \in 1..2 |-> QuotaTask(kinds[i], i)] : kinds \in [1..2 -> CooldownKinds]}

CooldownInit ==
    /\ now = QuotaNow
    /\ ticks = 0
    /\ rateLimits = EmptyLimits
    /\ probe = NoProbe
    /\ lastCheck = NoCheck
    /\ CallsIdle
    /\ PathIdle
    /\ SigIdle
    /\ InferIdle
    /\ nudgeTasks \in CooldownLists
    /\ cooldowns = <<>>
    /\ nudgeRuns = <<>>
    /\ dismissals = <<>>

\* The page renders: detectAllNudges(incompleteTasks); the Map it returns
\* is the one on screen.
CooldownDetect ==
    /\ nudgeRuns' = <<Run(MAX_BADGES)>>
    /\ cooldowns' = Run(MAX_BADGES).after
    /\ UNCHANGED <<envVars, orchVars, pathVars, sigPair, nudgeTasks, dismissals,
                   inference>>

\* handleNudgeDismiss(taskId, type) for a nudge on screen:
\* setNudgeCooldown(taskId, type).
Dismiss(taskId, type) ==
    /\ Cardinality(DOMAIN dismissals) < MaxDismiss
    /\ nudgeRuns # <<>>
    /\ taskId \in DOMAIN nudgeRuns[1].result
    /\ \E i \in DOMAIN nudgeRuns[1].result[taskId] :
          nudgeRuns[1].result[taskId][i].type = type
    /\ cooldowns' = setNudgeCooldown(cooldowns, taskId, type, now)
    /\ dismissals' = MapSet(dismissals, getCooldownKey(taskId, type), now)
    /\ UNCHANGED <<envVars, orchVars, pathVars, sigPair, nudgeTasks, nudgeRuns,
                   inference>>

\* Time passes: a millisecond, or a millisecond less than the cooldown.
CooldownTick ==
    /\ ticks < MaxCooldownTicks
    /\ \E step \in {1, NUDGE_COOLDOWN_MS - 1} : now' = now + step
    /\ ticks' = ticks + 1
    /\ UNCHANGED <<rateLimits, probe, lastCheck, orchVars, libVars>>

CooldownNext ==
    \/ CooldownDetect
    \/ \E i \in 1..2, type \in {"overdue", "needs_breakdown"} :
          Dismiss(TaskIdAt(i), type)
    \/ CooldownTick

SpecCooldown == CooldownInit /\ [][CooldownNext]_vars

-----------------------------------------------------------------------------
(* The rules of one task: detectTaskNudges on a task of any content, from
   noon of day 10 on *)

RuleTasks ==
    [id : {TaskIdAt(1)},
     text : {TextOfLength(COMPLEX_TASK_LENGTH),
             TextOfLength(COMPLEX_TASK_LENGTH + 1)},
     completed : BOOLEAN,
     dueDate : {Null, <<>>, DateString(9), DateString(10), DateString(11)},
     subTasks : {<<>>, <<"s1">>},
     aiSuggestions : {<<>>, <<"a1">>}]

RuleInit ==
    /\ now = QuotaNow
    /\ ticks = 0
    /\ rateLimits = EmptyLimits
    /\ probe = NoProbe
    /\ lastCheck = NoCheck
    /\ CallsIdle
    /\ PathIdle
    /\ SigIdle
    /\ InferIdle
    /\ \E task \in RuleTasks : nudgeTasks = <<task>>
    /\ cooldowns = <<>>
    /\ nudgeRuns = <<>>
    /\ dismissals = <<>>

\* detectTaskNudges(task) runs now; its result is noted.
RuleDetect ==
    /\ nudgeRuns' = <<[at |-> now,
                       nudges |-> detectTaskNudges(nudgeTasks[1], now)]>>
    /\ UNCHANGED <<envVars, orchVars, pathVars, sigPair, nudgeTasks, cooldowns,
                   dismissals, inference>>

\* Half a day passes.
RuleTick ==
    /\ ticks < MaxRuleTicks
    /\ now' = now + DayMs \div 2
    /\ ticks' = ticks + 1
    /\ UNCHANGED <<rateLimits, probe, lastCheck, orchVars, libVars>>

RuleNext == RuleDetect \/ RuleTick

SpecRule == RuleInit /\ [][RuleNext]_vars

-----------------------------------------------------------------------------
(* State inference: determineState on a list of signals.  Scores are
   counted in halves, so that the base score 0.5 of okay is 1. *)

SIGNAL_WEIGHTS == [high |-> 3, medium |-> 2, low |-> 1]

\* The keys of stateScores, in the order Object.entries yields them.
StateOrder ==
    <<"energized", "okay", "low", "tired", "avoidant", "uncertain",
      "disengaged", "needs_breakdown">>

\* Mutant: okay starts level with one low-weight signal.
InitialScores_OkayAtOne ==
    [i \in DOMAIN StateOrder |-> IF StateOrder[i] = "okay" THEN 2 ELSE 0]

\* The initial stateScores, in halves.
InitialScores ==
    [i \in DOMAIN StateOrder |-> IF StateOrder[i] = "okay" THEN 1 ELSE 0]

\* The switch on signal.type: the state whose score the signal raises
ScoredState(type) ==
    CASE type = "completion_rate" -> "energized"
      [] type = "low_completion_rate" -> "low"
      [] type = "procrastination" -> "avoidant"
      [] type = "late_night_usage" -> "tired"
      [] type = "needs_breakdown" -> "needs_breakdown"
      [] OTHER -> "none"

\* The loop over the signals (lines 196-216)
RECURSIVE AddSignals(_, _)
AddSignals(scores, signals) ==
    IF signals = <<>>
    THEN scores
    ELSE LET signal == Head(signals)
             weight == SIGNAL_WEIGHTS[signal.weight]
         IN  AddSignals([i \in DOMAIN scores |->
                            IF StateOrder[i] = ScoredState(signal.type)
                            THEN scores[i] + 2 * weight ELSE scores[i]],
                        Tail(signals))

\* Mutant: a state that equals the highest score so far takes the lead.
Exceeds_OrEqual(score, maxScore) == score >= maxScore

\* if (score > maxScore)
Exceeds(score, maxScore) == score > maxScore

\* The loop over Object.entries(stateScores) (lines 222-227) from entry i
\* on, with the highest score and its state so far.
RECURSIVE PickMax(_, _, _, _)
PickMax(scores, i, maxScore, primaryState) ==
    IF i > Len(scores)
    THEN [maxScore |-> maxScore, primaryState |-> primaryState]
    ELSE IF Exceeds(scores[i], maxScore)
         THEN PickMax(scores, i + 1, scores[i], StateOrder[i])
         ELSE PickMax(scores, i + 1, maxScore, primaryState)

\* Mutant: the confidence is taken against the medium weight.
determineState_MediumScale(signals) ==
    IF Len(signals) = 0
    THEN [state |-> "okay", confidence |-> [num |-> 1, den |-> 2]]
    ELSE LET best == PickMax(AddSignals(InitialScores, signals), 1, 0, "okay")
             maxPossibleScore == 2 * Len(signals) * SIGNAL_WEIGHTS["medium"]
         IN  [state |-> best.primaryState,
              confidence |-> [num |-> Min(best.maxScore, maxPossibleScore),
                              den |-> maxPossibleScore]]

\* determineState(signals); the confidence is the fraction num/den
determineState(signals) ==
    IF Len(signals) = 0
    THEN [state |-> "okay", confidence |-> [num |-> 1, den |-> 2]]
    ELSE LET best == PickMax(AddSignals(InitialScores, signals), 1, 0, "okay")
             maxPossibleScore == 2 * Len(signals) * SIGNAL_WEIGHTS["high"]
         IN  [state |-> best.primaryState,
              confidence |-> [num |-> Min(best.maxScore, maxPossibleScore),
                              den |-> maxPossibleScore]]

\* The signals generateSignals builds, with any weight.
SignalTypes ==
    {"completion_rate", "low_completion_rate", "procrastination",
     "late_night_usage", "needs_breakdown"}

Signals == [type : SignalTypes, weight : {"high", "medium", "low"}]

SignalLists == UNION {[1..n -> Signals] : n \in 0..MaxSignals}

InferInit ==
    /\ now = 0
    /\ ticks = 0
    /\ rateLimits = EmptyLimits
    /\ probe = NoProbe
    /\ lastCheck = NoCheck
    /\ CallsIdle
    /\ PathIdle
    /\ SigIdle
    /\ NudgeIdle
    /\ \E signals \in SignalLists :
          inference = [phase |-> "signals", signals |-> signals]

\* inferUserState passes the signals to determineState.
Infer ==
    /\ inference.phase = "signals"
    /\ inference' = [phase |-> "inferred", signals |-> inference.signals,
                     out |-> determineState(inference.signals)]
    /\ UNCHANGED <<envVars, orchVars, pathVars, sigPair, nudgeVars>>

InferNext == Infer

SpecInfer == InferInit /\ [][InferNext]_vars

-----------------------------------------------------------------------------
(* Validity of an inferred state: useStateInference infers a state, asks
   whether the state it holds is valid, and time passes *)

INFERENCE_VALIDITY_HOURS == 4

\* inferUserState(tasks) at time t, generateSignals having built `signals`
inferUserState(signals, t) ==
    LET d == determineState(signals)
    IN  [state |-> d.state, confidence |-> d.confidence, signals |-> signals,
         inferredAt |-> ToISOString(t),
         validUntil |->
             ToISOString(t + INFERENCE_VALIDITY_HOURS * 60 * 60 * 1000)]

\* Mutant: a state is still valid at the moment validUntil.
isStateValid_Inclusive(held, t) ==
    IF held.phase = "null" THEN FALSE
    ELSE t <= GetTime(held.state.validUntil)

\* isStateValid(state) at time t; `held` is the hook's state, null at first
isStateValid(held, t) ==
    IF held.phase = "null" THEN FALSE
    ELSE t < GetTime(held.state.validUntil)

ValidInit ==
    /\ now = 0
    /\ ticks = 0
    /\ rateLimits = EmptyLimits
    /\ probe = NoProbe
    /\ lastCheck = NoCheck
    /\ CallsIdle
    /\ PathIdle
    /\ SigIdle
    /\ NudgeIdle
    /\ inference = [phase |-> "null", checks |-> <<>>]

\* The hook calls inferUserState(tasks) and holds the result; `madeAt`
\* notes the time of the call.
InferUserState ==
    /\ \E signals \in {<<>>, <<[type |-> "completion_rate",
                                weight |-> "high"]>>} :
          inference' = [phase |-> "held", madeAt |-> now, checks |-> <<>>,
                        state |-> inferUserState(signals, now)]
    /\ UNCHANGED <<envVars, orchVars, pathVars, sigPair, nudgeVars>>

\* The hook calls isStateValid on the state it holds; the answer is noted
\* with the time of the call.
CheckValid ==
    /\ Len(inference.checks) < 1
    /\ inference' = [inference EXCEPT !.checks =
                        Append(@, [at |-> now,
                                   valid |-> isStateValid(inference, now)])]
    /\ UNCHANGED <<envVars, orchVars, pathVars, sigPair, nudgeVars>>

\* Time passes: a millisecond, or a millisecond less than the validity.
ValidTick ==
    /\ ticks < MaxValidTicks
    /\ \E step \in {1, INFERENCE_VALIDITY_HOURS * 60 * 60 * 1000 - 1} :
          now' = now + step
    /\ ticks' = ticks + 1
    /\ UNCHANGED <<rateLimits, probe, lastCheck, orchVars, libVars>>

ValidNext == InferUserState \/ CheckValid \/ ValidTick

SpecValid == ValidInit /\ [][ValidNext]_vars

-----------------------------------------------------------------------------------------------------------------------------------------------------
(* SpecAdmit: the requests that get past checkRateLimits, for four task
   keys, within an hour *)

\* The admissions of `log` noted for the task key `key` at time t.
AdmittedAt(log, key, t) == {a \in log : a.key = key /\ a.at = t}

\* requestAISuggestions(p) reaches line 223 at time t: checkRateLimits(p)
\* runs, and the observer notes the request if the check lets it through.
Checked(st, p, t) ==
    LET r == checkRateLimits(st.limits, p, t)
        key == buildRateKey(p).taskKey
    IN  [limits |-> r.limits,
         admitted |->
            IF r.ok
            THEN st.admitted \cup
                    {[key |-> key, at |-> t,
                      nth |-> Cardinality(AdmittedAt(st.admitted, key, t)) + 1]}
            ELSE st.admitted]

\* The limiter and the admissions after the requests of `calls`.
RECURSIVE ReplayChecked(_, _)
ReplayChecked(st, calls) ==
    IF calls = <<>> THEN st
    ELSE ReplayChecked(Checked(st, Head(calls).p, Head(calls).t), Tail(calls))

\* Three earlier rounds of three requests, RateStep apart.
EarlierRounds ==
    <<[p |-> ParamA, t |-> 0], [p |-> ParamB, t |-> 0], [p |-> ParamC, t |-> 0],
      [p |-> ParamA, t |-> RateStep], [p |-> ParamB, t |-> RateStep],
      [p |-> ParamD, t |-> RateStep],
      [p |-> ParamA, t |-> 2 * RateStep], [p |-> ParamC, t |-> 2 * RateStep],
      [p |-> ParamD, t |-> 2 * RateStep]>>

Fresh == [limits |-> EmptyLimits, admitted |-> {}]

\* The limiter as constructed, or as those three rounds of requests left it.
AdmitInit ==
    /\ ticks = 0
    /\ probe = NoProbe
    /\ lastCheck = NoCheck
    /\ CallsIdle
    /\ SigIdle
    /\ NudgeIdle
    /\ InferIdle
    /\ parsed = [phase |-> "idle"]
    /\ focus = [phase |-> "idle"]
    /\ \/ now = 0 /\ rateLimits = EmptyLimits /\ admitted = {}
       \/ LET st == ReplayChecked(Fresh, EarlierRounds)
          IN  /\ now = 2 * RateStep
              /\ rateLimits = st.limits
              /\ admitted = st.admitted

AdmitCheck(p) ==
    LET st == Checked([limits |-> rateLimits, admitted |-> admitted], p, now)
    IN  /\ rateLimits' = st.limits
        /\ admitted' = st.admitted
        /\ UNCHANGED <<now, ticks, probe, lastCheck, parsed, focus>>
        /\ UNCHANGED <<orchVars, sigPair, nudgeVars, inference>>

\* The clock advances by the whole 60 s window, or just past the 5 min one.
AdmitTick ==
    /\ ticks < MaxAdmitTicks
    /\ \E step \in {RATE_CONFIG["perUser1m"].windowMs, RateStep} :
          now' = now + step
    /\ ticks' = ticks + 1
    /\ UNCHANGED <<rateLimits, probe, lastCheck, orchVars, libVars>>

AdmitNext == (\E p \in RateParams : AdmitCheck(p)) \/ AdmitTick

SpecAdmit == AdmitInit /\ [][AdmitNext]_vars

-----------------------------------------------------------------------------
(* SpecDismiss: the page shows a task list, the user dismisses one nudge on
   screen and the page renders again *)

DismissInit ==
    /\ now = QuotaNow
    /\ ticks = 0
    /\ rateLimits = EmptyLimits
    /\ probe = NoProbe
    /\ lastCheck = NoCheck
    /\ CallsIdle
    /\ PathIdle
    /\ SigIdle
    /\ InferIdle
    /\ nudgeTasks \in QuotaLists
    /\ cooldowns \in QuotaCooldowns
    /\ nudgeRuns = <<>>
    /\ dismissals = <<>>

\* The first render, and the render after the dismissal, with one quota.
DismissDetect(maxBadges) ==
    /\ \/ nudgeRuns = <<>>
       \/ /\ Len(nudgeRuns) = 1
          /\ dismissals # <<>>
          /\ maxBadges = nudgeRuns[1].maxBadges
    /\ Detect(maxBadges)

\* The user dismisses one nudge of the first render.
DismissOne(taskId, type) ==
    /\ Len(nudgeRuns) = 1
    /\ dismissals = <<>>
    /\ Dismiss(taskId, type)

DismissNext ==
    \/ \E maxBadges \in 0..MaxNudgeTasks : DismissDetect(maxBadges)
    \/ \E i \in 1..MaxNudgeTasks, type \in {"overdue", "needs_breakdown"} :
          DismissOne(TaskIdAt(i), type)

SpecDismiss == DismissInit /\ [][DismissNext]_vars

-----------------------------------------------------------------------------
(* SpecSignals: generateSignals on a task list, from noon of day 10 on.
   The completion rate is the fraction num/den. *)

HIGH_COMPLETION_RATE == [num |-> 7, den |-> 10]
LOW_COMPLETION_RATE == [num |-> 3, den |-> 10]
POSTPONE_COUNT == 3
LATE_NIGHT_HOUR == 23

\* a >= b on fractions with positive denominators
AtLeast(a, b) == a.num * b.den >= b.num * a.den

\* The number of elements of a list that satisfy Test
Count(list, Test(_)) == Len(SelectSeq(list, Test))

\* null, where an ISO timestamp may stand
NullTime == [null |-> TRUE]

\* t.completedAt?.startsWith(today): today is the date part of
\* new Date().toISOString()
CompletedOn(task, t) ==
    /\ task.completedAt # NullTime
    /\ task.completedAt.date = ToISOString(t).date

\* Mutant: the rate is taken over every task of the list.
calculateCompletionRate_OfAll(list, t) ==
    LET todaysTasks ==
            SelectSeq(list, LAMBDA task : ~task.completed \/ CompletedOn(task, t))
        completedToday ==
            Count(todaysTasks, LAMBDA task : task.completed /\ CompletedOn(task, t))
    IN  IF Len(todaysTasks) = 0
        THEN [num |-> 1, den |-> 2]
        ELSE [num |-> completedToday, den |-> Len(list)]

\* calculateCompletionRate(tasks) at time t
calculateCompletionRate(list, t) ==
    LET todaysTasks ==
            SelectSeq(list, LAMBDA task : ~task.completed \/ CompletedOn(task, t))
        completedToday ==
            Count(todaysTasks, LAMBDA task : task.completed /\ CompletedOn(task, t))
    IN  IF Len(todaysTasks) = 0
        THEN [num |-> 1, den |-> 2]
        ELSE [num |-> completedToday, den |-> Len(todaysTasks)]

\* checkProcrastinationSignals(tasks).delayedTasks: the two ISO strings
\* compare as their times do
DelayedTasks(list, t) ==
    Count(list, LAMBDA task :
                   /\ ~task.completed
                   /\ task.dueDate = Null
                   /\ GetTime(task.createdAt) < t - 7 * DayMs)

\* isLateNightUsage(), the clock of the device being on UTC
isLateNightUsage(t) ==
    LET hour == ToISOString(t).h
    IN  hour >= LATE_NIGHT_HOUR \/ hour < 5

\* checkNeedsBreakdown(tasks)
checkNeedsBreakdown(list) ==
    \E i \in DOMAIN list :
        /\ ~list[i].completed
        /\ Len(list[i].text) > COMPLEX_TASK_LENGTH
        /\ Len(list[i].subTasks) = 0

\* generateSignals(tasks) at time t
generateSignals(list, t) ==
    LET completionRate == calculateCompletionRate(list, t)
        delayedTasks == DelayedTasks(list, t)
        s1 == IF AtLeast(completionRate, HIGH_COMPLETION_RATE)
              THEN <<[type |-> "completion_rate", weight |-> "high",
                      value |-> completionRate]>>
              ELSE IF AtLeast(LOW_COMPLETION_RATE, completionRate)
              THEN <<[type |-> "low_completion_rate", weight |-> "medium",
                      value |-> completionRate]>>
              ELSE <<>>
        s2 == IF delayedTasks >= POSTPONE_COUNT
              THEN <<[type |-> "procrastination", weight |-> "high",
                      value |-> delayedTasks]>>
              ELSE <<>>
        s3 == IF isLateNightUsage(t)
              THEN <<[type |-> "late_night_usage", weight |-> "low",
                      value |-> TRUE]>>
              ELSE <<>>
        s4 == IF checkNeedsBreakdown(list)
              THEN <<[type |-> "needs_breakdown", weight |-> "medium",
                      value |-> TRUE]>>
              ELSE <<>>
    IN  s1 \o s2 \o s3 \o s4

\* The tasks of the lists: open, completed an hour before noon of day 10,
\* completed the day before, completed with no completedAt, left without a
\* deadline since day 1, and long without subtasks.
SignalTask(kind) ==
    [completed |-> kind \in {"doneToday", "doneBefore", "doneUnstamped"},
     completedAt |-> CASE kind = "doneToday" -> ToISOString(QuotaNow - 3600000)
                       [] kind = "doneBefore" -> ToISOString(QuotaNow - DayMs)
                       [] OTHER -> NullTime,
     dueDate |-> IF kind = "stale" THEN Null ELSE DateString(11),
     createdAt |-> ToISOString(IF kind = "stale" THEN DayMs ELSE 9 * DayMs),
     text |-> IF kind = "long" THEN TextOfLength(COMPLEX_TASK_LENGTH + 1)
              ELSE TextOfLength(1),
     subTasks |-> <<>>]

Block(kind, n) == [i \in 1..n |-> SignalTask(kind)]

\* What else a list holds besides its open tasks and those completed today.
RestOfList ==
    {<<>>, Block("doneBefore", 1), Block("doneUnstamped", 1),
     Block("stale", POSTPONE_COUNT), Block("long", 1)}

SignalTaskLists ==
    {Block("open", a) \o Block("doneToday", b) \o others :
        a \in 0..MaxCount, b \in 0..MaxCount, others \in RestOfList}

SignalsInit ==
    /\ now = QuotaNow
    /\ ticks = 0
    /\ rateLimits = EmptyLimits
    /\ probe = NoProbe
    /\ lastCheck = NoCheck
    /\ CallsIdle
    /\ PathIdle
    /\ SigIdle
    /\ NudgeIdle
    /\ \E list \in SignalTaskLists :
          inference = [phase |-> "tasks", tasks |-> list]

\* inferUserState(tasks) calls generateSignals(tasks) (line 244).
GenerateSignals ==
    /\ inference.phase = "tasks"
    /\ inference' = [phase |-> "generated", tasks |-> inference.tasks,
                     at |-> now,
                     signals |-> generateSignals(inference.tasks, now)]
    /\ UNCHANGED <<envVars, orchVars, pathVars, sigPair, nudgeVars>>

\* Time passes before the signals are generated: an hour, or eleven and a
\* half.
SignalsTick ==
    /\ ticks < MaxSignalTicks
    /\ inference.phase = "tasks"
    /\ \E step \in {3600000, 23 * 1800000} : now' = now + step
    /\ ticks' = ticks + 1
    /\ UNCHANGED <<rateLimits, probe, lastCheck, orchVars, libVars>>

SignalsNext == GenerateSignals \/ SignalsTick

SpecSignals == SignalsInit /\ [][SignalsNext]_vars

-----------------------------------------------------------------------------
(* SpecFocus: concurrent calls of taskRepository.toggleFocused on four
   tasks.  A row of db.tasks is kept as its focus fields. *)

MAX_FOCUSED == 3

FocusIds == 1..4

Unfocused == [isFocused |-> FALSE, focusedAt |-> NullTime]
FocusedAt(t) == [isFocused |-> TRUE, focusedAt |-> ToISOString(t)]

\* getFocused(): the rows with isFocused set whose focusedAt starts with
\* the date part of new Date().toISOString()
getFocused(rows, t) ==
    {id \in DOMAIN rows :
        /\ rows[id].isFocused
        /\ rows[id].focusedAt # NullTime
        /\ rows[id].focusedAt.date = ToISOString(t).date}

\* getFocusedCount()
getFocusedCount(rows, t) == Cardinality(getFocused(rows, t))

ToggleIdle == [pc |-> "idle"]

Toggles == 1..MaxToggles

\* Nothing focused, or the first two or three tasks focused an hour ago.
FocusInit ==
    /\ now = QuotaNow
    /\ ticks = 0
    /\ rateLimits = EmptyLimits
    /\ probe = NoProbe
    /\ lastCheck = NoCheck
    /\ CallsIdle
    /\ SigIdle
    /\ NudgeIdle
    /\ InferIdle
    /\ admitted = {}
    /\ parsed = [phase |-> "idle"]
    /\ \E k \in {0, 2, MAX_FOCUSED} :
          focus = [rows |-> [id \in FocusIds |->
                               IF id <= k THEN FocusedAt(QuotaNow - 3600000)
                               ELSE Unfocused],
                   calls |-> [c \in Toggles |-> ToggleIdle]]

FocusFrame == UNCHANGED <<envVars, orchVars, sigPair, nudgeVars, inference,
                          admitted, parsed>>

\* toggleFocused(id) is called and getById(id) resolves (lines 304-305):
\* the call goes on to unfocus the task or to count the focused ones.
ToggleStart(c, id) ==
    /\ focus.calls[c].pc = "idle"
    /\ \A d \in Toggles : d < c => focus.calls[d].pc # "idle"
    /\ focus' = [focus EXCEPT !.calls[c] =
                    [pc |-> IF focus.rows[id].isFocused THEN "unfocus"
                            ELSE "count",
                     id |-> id, before |-> focus.rows[id]]]
    /\ FocusFrame

\* await db().tasks.update(id, {isFocused: false, ...}) completes (line 313)
ToggleUnfocus(c) ==
    /\ focus.calls[c].pc = "unfocus"
    /\ focus' = [focus EXCEPT !.rows[focus.calls[c].id] = Unfocused,
                               !.calls[c].pc = "reread"]
    /\ FocusFrame

\* await this.getFocusedCount() resolves and the limit is tested
\* (lines 323-326).
ToggleCount(c) ==
    /\ focus.calls[c].pc = "count"
    /\ LET currentFocusedCount == getFocusedCount(focus.rows, now)
       IN  focus' = [focus EXCEPT !.calls[c] =
              IF currentFocusedCount >= MAX_FOCUSED
              THEN [pc |-> "done", id |-> focus.calls[c].id,
                    before |-> focus.calls[c].before,
                    counted |-> currentFocusedCount,
                    success |-> FALSE,
                    error |-> <<"Maximum 3 focused tasks allowed">>]
              ELSE [pc |-> "update", id |-> focus.calls[c].id,
                    before |-> focus.calls[c].before,
                    counted |-> currentFocusedCount]]
    /\ FocusFrame

\* await db().tasks.update(id, {isFocused: true, focusedAt: nowTs, ...})
\* completes (lines 328-335).
ToggleUpdate(c) ==
    /\ focus.calls[c].pc = "update"
    /\ focus' = [focus EXCEPT !.rows[focus.calls[c].id] = FocusedAt(now),
                               !.calls[c].pc = "reread"]
    /\ FocusFrame

\* return { success: true, task: (await this.getById(id))! }
ToggleReturn(c) ==
    /\ focus.calls[c].pc = "reread"
    /\ focus' = [focus EXCEPT !.calls[c] =
                    [pc |-> "done", id |-> focus.calls[c].id,
                     before |-> focus.calls[c].before,
                     success |-> TRUE, task |-> focus.rows[focus.calls[c].id]]]
    /\ FocusFrame

\* Midnight passes.
FocusTick ==
    /\ ticks < MaxFocusTicks
    /\ now' = now + DayMs
    /\ ticks' = ticks + 1
    /\ UNCHANGED <<rateLimits, probe, lastCheck, orchVars, libVars>>

FocusNext ==
    \/ \E c \in Toggles, id \in FocusIds : ToggleStart(c, id)
    \/ \E c \in Toggles : ToggleUnfocus(c)
    \/ \E c \in Toggles : ToggleCount(c)
    \/ \E c \in Toggles : ToggleUpdate(c)
    \/ \E c \in Toggles : ToggleReturn(c)
    \/ FocusTick

SpecFocus == FocusInit /\ [][FocusNext]_vars

-----------------------------------------------------------------------------
(* SpecParse: parseResponse on a provider reply.  The reply is kept as what
   the match and JSON.parse make of it: no bracketed part, a bracketed part
   that is no JSON, or the array decoded, element by element. *)

\* A JSON value that is no string (a number, null, an object, an array)
NonString == [type |-> "other"]
JsonString(s) == [type |-> "string", s |-> s]

\* typeof s === 'string' && s.trim().length > 0
IsSuggestion(e) == e.type = "string" /\ Len(Trim(e.s)) > 0

\* Mutant: the array is cut to five elements before it is filtered.
parseResponse_CapFirst(reply) ==
    IF reply.kind \in {"noMatch", "badJson"}
    THEN [threw |-> TRUE]
    ELSE LET cut == SubSeq(reply.elements, 1, Min(5, Len(reply.elements)))
             kept == SelectSeq(cut, IsSuggestion)
         IN  [threw |-> FALSE,
              suggestions |-> [i \in DOMAIN kept |-> Trim(kept[i].s)]]

\* parseResponse(text): it throws, or returns the suggestions
parseResponse(reply) ==
    IF reply.kind \in {"noMatch", "badJson"}
    THEN [threw |-> TRUE]
    ELSE LET kept == SelectSeq(reply.elements, IsSuggestion)
             trimmed == [i \in DOMAIN kept |-> Trim(kept[i].s)]
         IN  [threw |-> FALSE,
              suggestions |-> SubSeq(trimmed, 1, Min(5, Len(trimmed)))]

\* The elements of the arrays: a non-string, the empty string, a blank
\* string, a plain step and a step with blanks around it.
ReplyElements ==
    {NonString, JsonString(<<>>), JsonString(<<" ">>), JsonString(<<"a">>),
     JsonString(<<" ", "b", " ">>)}

\* The replies that decode to an array of n elements.
ArrayReplies(n) ==
    {[kind |-> "array", elements |-> e] : e \in [1..n -> ReplyElements]}

ParseInit ==
    /\ now = 0
    /\ ticks = 0
    /\ rateLimits = EmptyLimits
    /\ probe = NoProbe
    /\ lastCheck = NoCheck
    /\ CallsIdle
    /\ SigIdle
    /\ NudgeIdle
    /\ InferIdle
    /\ admitted = {}
    /\ focus = [phase |-> "idle"]
    /\ \/ \E kind \in {"noMatch", "badJson"} :
             parsed = [phase |-> "reply", reply |-> [kind |-> kind]]
       \/ \E n \in 0..MaxArrayLen : \E reply \in ArrayReplies(n) :
             parsed = [phase |-> "reply", reply |-> reply]

\* generateSuggestions passes the text of the reply to parseResponse.
ParseResponse ==
    /\ parsed.phase = "reply"
    /\ parsed' = [phase |-> "parsed", reply |-> parsed.reply,
                  out |-> parseResponse(parsed.reply)]
    /\ UNCHANGED <<envVars, orchVars, sigPair, nudgeVars, inference,
                   admitted, focus>>

ParseNext == ParseResponse

SpecParse == ParseInit /\ [][ParseNext]_vars

-----------------------------------------------------------------------------
(* Properties of the rate limiter *)

BucketOrder == <<"perTask5m", "perTask1h", "perUser1m", "perUser1h">>

BucketMessage(b) ==
    CASE b = "perTask5m" -> MsgPerTask5m
      [] b = "perTask1h" -> MsgPerTask1h
      [] b = "perUser1m" -> MsgPerUser1m
      [] b = "perUser1h" -> MsgPerUser1h

BucketKey(b, p) ==
    IF b \in {"perTask5m", "perTask1h"}
    THEN OrElse(p.taskSignature, OrElse(p.taskId, p.taskText))
    ELSE <<"user-default">>

\* The timestamps of a window that are still inside it at time t, in order.
InWindow(limits, b, key, t) ==
    LET e == Entries(limits, b, key)
    IN  SelectSeq(e, LAMBDA ts : t - ts <= RATE_CONFIG[b].windowMs)

HasRoom(limits, b, key, t) ==
    Len(InWindow(limits, b, key, t)) < RATE_CONFIG[b].max

\* Index in BucketOrder of the first bucket without room, 5 if all have room.
FirstFull(limits, p, t) ==
    LET full == {i \in 1..4 :
                    ~HasRoom(limits, BucketOrder[i], BucketKey(BucketOrder[i], p), t)}
    IN  IF full = {} THEN 5 ELSE CHOOSE i \in full : \A j \in full : i <= j

\* C4: for one bucket key starting from an empty window, the first N calls
\* within W of the first admission are admitted, the (N+1)th call within that
\* window is rejected, the first call later than W after the first admission
\* is admitted again, and at most N retained timestamps are inside the window.
C4_SlidingWindow ==
    probe.bucket # "none" =>
        LET cfg == RATE_CONFIG[probe.bucket]
            within == probe.lastNow - probe.first <= cfg.windowMs
        IN  /\ Len(InWindow(rateLimits, probe.bucket, probe.key, now)) <= cfg.max
            /\ probe.calls > 0 =>
                /\ (probe.calls <= cfg.max /\ within) => probe.lastOk
                /\ (probe.calls = cfg.max + 1 /\ within) => ~probe.lastOk
                /\ probe.late = 1 => probe.lastOk

\* A bucket that rejected its (N+1)th call inside the window has just admitted
\* the first call made after the window closed.
C4_Witness ==
    /\ probe.bucket = "perUser1m"
    /\ probe.rejected
    /\ probe.late = 1
    /\ probe.lastOk
    /\ now = probe.lastNow

\* C5: a rejection carries the message of the first bucket, in the order
\* per-task 5 min, per-task hourly, per-process 60 s, per-process hourly,
\* that has no room; so a full per-task bucket wins over a full per-process one.
C5_FirstViolatedMessage ==
    (lastCheck.called /\ ~lastCheck.ok) =>
        LET i == FirstFull(lastCheck.pre, lastCheck.p, lastCheck.at)
        IN  /\ i \in 1..4
            /\ lastCheck.message = BucketMessage(BucketOrder[i])
            /\ ((\E t \in 1..2 : \E u \in 3..4 :
                    /\ ~HasRoom(lastCheck.pre, BucketOrder[t],
                                BucketKey(BucketOrder[t], lastCheck.p), lastCheck.at)
                    /\ ~HasRoom(lastCheck.pre, BucketOrder[u],
                                BucketKey(BucketOrder[u], lastCheck.p), lastCheck.at))
                => lastCheck.message \in {MsgPerTask5m, MsgPerTask1h})

\* A request rejected while a per-task and a per-process bucket were both full.
C5_Witness ==
    /\ lastCheck.called
    /\ ~lastCheck.ok
    /\ ~HasRoom(lastCheck.pre, "perTask5m", BucketKey("perTask5m", lastCheck.p), lastCheck.at)
    /\ ~HasRoom(lastCheck.pre, "perUser1m", BucketKey("perUser1m", lastCheck.p), lastCheck.at)
    /\ lastCheck.message = MsgPerTask5m

\* C6: a rejection at bucket i leaves every earlier bucket with the current
\* timestamp appended, bucket i pruned to its in-window timestamps and
\* nothing more, and every later bucket (and every other key) untouched.
C6_RejectionFrame ==
    (lastCheck.called /\ ~lastCheck.ok) =>
        LET i == FirstFull(lastCheck.pre, lastCheck.p, lastCheck.at)
        IN  \A j \in 1..4 :
              LET b == BucketOrder[j]
                  key == BucketKey(b, lastCheck.p)
                  kept == InWindow(lastCheck.pre, b, key, lastCheck.at)
              IN  /\ j < i => Entries(rateLimits, b, key) = Append(kept, lastCheck.at)
                  /\ j = i => Entries(rateLimits, b, key) = kept
                  /\ j > i => rateLimits[b] = lastCheck.pre[b]
                  /\ \A k \in DOMAIN lastCheck.pre[b] :
                        k # key => Entries(rateLimits, b, k) = lastCheck.pre[b][k]
                  /\ DOMAIN rateLimits[b] \subseteq DOMAIN lastCheck.pre[b] \cup {key}

\* A request rejected by the per-process 60 s bucket: both per-task buckets
\* took its timestamp and the per-process hourly bucket did not.
C6_Witness ==
    /\ lastCheck.called
    /\ ~lastCheck.ok
    /\ FirstFull(lastCheck.pre, lastCheck.p, lastCheck.at) = 3
    /\ lastCheck.message = MsgPerUser1m

\* Scenario coverage: a rejection by each of the four buckets is reachable.
RejectedAt(i) ==
    /\ lastCheck.called
    /\ ~lastCheck.ok
    /\ FirstFull(lastCheck.pre, lastCheck.p, lastCheck.at) = i

-----------------------------------------------------------------------------
(* Properties of the orchestrator *)

\* C1: for every coalescing key at most one promise wrapping fetchWithRetry
\* is unsettled at any time, and every unsettled one is the promise the
\* in-flight map holds for its key (lookup and insertion are one step).
C1_AtMostOneInFlightPerKey ==
    \A q \in DOMAIN promises :
        Pending(q) =>
            /\ promises[q].key \in DOMAIN inFlight
            /\ inFlight[promises[q].key] = q
            /\ \A r \in DOMAIN promises :
                  (Pending(r) /\ promises[r].key = promises[q].key) => r = q

\* A later call for the same key got past the rate check while the first
\* provider call was still unsettled, and was handed the in-flight promise.
C1_Witness ==
    \E c \in Calls :
        /\ pc[c] = "awaitShared"
        /\ Pending(joined[c])
        /\ promises[joined[c]].key = InflightKey(params[c])

\* C2: a call that makes its rate check while the provider call for the same
\* key is outstanding starts no provider call of its own and settles exactly
\* as that in-flight call settles (same value, or same rejection).
C2_ConcurrentCallersShareResult ==
    \A c \in Calls :
        (concurrent[c] # 0 /\ pc[c] \in {"done", "thrown"}) =>
            /\ c \notin DOMAIN promises
            /\ Settled(concurrent[c])
            /\ \/ /\ pc[c] = "done"
                  /\ promises[concurrent[c]].state = "fulfilled"
                  /\ result[c] = promises[concurrent[c]].value
               \/ /\ pc[c] = "thrown"
                  /\ promises[concurrent[c]].state = "rejected"

\* C3: a call gets past the rate check (to wait on its own or on the
\* in-flight promise) only if each of the four buckets held fewer than max
\* timestamps inside its window at that moment, and the check appended the
\* current timestamp to all four.
C3_AdmittedOnlyWithRoom ==
    [][\A c \in Calls :
          (pc[c] = "rateCheck" /\ pc'[c] \in {"awaitOwn", "awaitShared"}) =>
              \A j \in 1..4 :
                  LET b == BucketOrder[j]
                      key == BucketKey(b, params[c])
                  IN  /\ HasRoom(rateLimits, b, key, now)
                      /\ Entries(rateLimits', b, key) =
                            Append(InWindow(rateLimits, b, key, now), now)]_vars

\* A call was admitted a second time for its task key: its earlier timestamp
\* had left the 5 min window and is still inside the hourly one.
C3_Witness ==
    \E c \in Calls :
        /\ pc[c] = "awaitOwn"
        /\ Len(Entries(rateLimits, "perTask1h", BucketKey("perTask1h", params[c]))) = 2
        /\ Len(Entries(rateLimits, "perTask5m", BucketKey("perTask5m", params[c]))) = 1

\* The lookup for the params p is a hit: an unexpired record of the task
\* with the signature of the request.
CacheHit(p) ==
    /\ p.taskId # <<>>
    /\ \E r \in aiSuggestions :
          /\ r.taskId = p.taskId
          /\ r.taskSignature = getSignatureFromParams(p)
          /\ now <= GetTime(r.expiresAt)

\* C7: when the cache lookup is a hit the call returns the stored suggestions
\* with success=true and fromCache=true, and the four buckets, the in-flight
\* map, the cache store and the set of provider calls are unchanged.
C7_CacheHitFrame ==
    [][\A c \in Calls :
          (pc[c] = "idle" /\ pc'[c] # "idle" /\ CacheHit(params'[c])) =>
              /\ pc'[c] = "done"
              /\ \E r \in aiSuggestions :
                    /\ r.taskId = params'[c].taskId
                    /\ result'[c] = [suggestions |-> r.suggestions,
                                     success |-> TRUE, fromCache |-> TRUE]
              /\ UNCHANGED <<rateLimits, inFlight, aiSuggestions, promises>>]_vars

\* A call was answered from the cache.
C7_Witness ==
    \E c \in Calls :
        /\ pc[c] = "done"
        /\ "fromCache" \in DOMAIN result[c]
        /\ result[c].fromCache
        /\ rateLimits # EmptyLimits

\* C8: when some bucket has no room at the rate check, the call returns
\* {suggestions: [], success: false, rateLimited: true, error: the message of
\* the first such bucket}, whatever the in-flight map holds, and the in-flight
\* map, the provider calls and the cache store are unchanged.
C8_RateLimitedFrame ==
    [][\A c \in Calls :
          (pc[c] = "rateCheck" /\ pc'[c] # "rateCheck"
              /\ FirstFull(rateLimits, params[c], now) <= 4) =>
              /\ pc'[c] = "done"
              /\ result'[c] =
                    [suggestions |-> <<>>, success |-> FALSE, rateLimited |-> TRUE,
                     error |-> BucketMessage(
                        BucketOrder[FirstFull(rateLimits, params[c], now)])]
              /\ UNCHANGED <<inFlight, promises, aiSuggestions>>]_vars

\* A call was rejected by the rate limiter while the in-flight map held the
\* promise of a provider call for the same key.
C8_Witness ==
    \E c \in Calls :
        /\ pc[c] = "done"
        /\ "rateLimited" \in DOMAIN result[c]
        /\ concurrent[c] # 0
        /\ Pending(concurrent[c])
        /\ inFlight # <<>>

\* C9: the promise returned by requestAISuggestions is never rejected.
C9_NeverRejects ==
    \A c \in Calls : pc[c] # "thrown"

-----------------------------------------------------------------------------
(* Retry classification (fetchWithRetry) *)

\* The first attempt of promise q has settled and no retry was issued yet.
FirstAttemptSettled(q) ==
    promises[q].i = 0 /\ promises[q].last # NoResponse

\* A network failure (fetch rejects) or a response of status 5xx.
NetworkOrServerError(resp) ==
    \/ resp.kind = "throw"
    \/ resp.kind = "response" /\ resp.status >= 500 /\ resp.status <= 599

\* C11: a first attempt that fails with a network failure or a 5xx response
\* is retried (the loop goes to its backoff sleep), and a later attempt that
\* succeeds makes fetchWithRetry return that success.
C11_NetworkOr5xxRetried ==
    \A q \in DOMAIN promises :
        LET P == promises[q]
        IN  /\ (FirstAttemptSettled(q) /\ NetworkOrServerError(P.last)) =>
                  P.state = "backoff"
            /\ (P.i > 0 /\ P.last = RespOk) =>
                  /\ P.state \in {"save", "fulfilled"}
                  /\ P.value.success

\* A 4xx answer of the route (validation) or its answer to a malformed
\* provider response.
ValidationFailure(resp) ==
    \/ resp.kind = "response" /\ resp.status >= 400 /\ resp.status <= 499
    \/ resp = RespMalformed

\* C12: after an attempt that fails with a 4xx validation error or a
\* malformed provider response there is no backoff sleep and no further
\* attempt: fetchWithRetry returns that failure at once, so such a failure
\* of the first attempt makes it the only attempt.
C12_ValidationNotRetried ==
    \A q \in DOMAIN promises :
        LET P == promises[q]
        IN  ValidationFailure(P.last) =>
              /\ P.state = "fulfilled"
              /\ P.value = attempt(P.last).result
              /\ ~P.value.success

\* The first attempt got the malformed-response failure and the promise
\* fulfilled with it.
C12_Witness ==
    \E q \in DOMAIN promises :
        /\ FirstAttemptSettled(q)
        /\ promises[q].last = RespMalformed
        /\ promises[q].state = "fulfilled"
        /\ promises[q].value.error = RespMalformed.body.error

\* C13: when the route answers that the provider is not configured, the
\* first attempt is the only one (no backoff, no retry), the call returns a
\* success=false result, and nothing is written to the cache table.
C13_NotConfiguredNoRetry ==
    /\ \A q \in DOMAIN promises :
          LET P == promises[q]
          IN  (FirstAttemptSettled(q) /\ P.last = RespNotConfigured) =>
                /\ P.state = "fulfilled"
                /\ ~P.value.success
                /\ P.value.error = RespNotConfigured.body.error
                /\ ~P.save.write
                /\ aiSuggestions = {}
    /\ \A c \in Calls :
          (pc[c] = "done" /\ ErrorOf(result[c]) = RespNotConfigured.body.error) =>
                /\ ~result[c].success
                /\ aiSuggestions = {}

\* A call returned the not-configured failure of its first attempt.
C13_Witness ==
    /\ pc[1] = "done"
    /\ ErrorOf(result[1]) = RespNotConfigured.body.error
    /\ ~result[1].success

-----------------------------------------------------------------------------
(* Backoff *)

RECURSIVE SumSeq(_)
SumSeq(seq) == IF seq = <<>> THEN 0 ELSE Head(seq) + SumSeq(Tail(seq))

\* C14: there is one backoff sleep before each retry and none after the
\* final attempt; the sleep before retry i (i = 0, 1) is between 300*3^i and
\* 1.2 * 300*3^i ms, and a request that exhausts its retries has slept
\* between 1200 and 1440 ms in all.
C14_BackoffDelays ==
    \A q \in DOMAIN promises :
        LET P == promises[q]
        IN  /\ Len(P.sleeps) = IF P.state = "backoff" THEN P.i + 1 ELSE P.i
            /\ Len(P.sleeps) <= 2
            /\ \A j \in DOMAIN P.sleeps :
                  /\ P.sleeps[j] >= 300 * (3 ^ (j - 1))
                  /\ 10 * P.sleeps[j] <= 12 * 300 * (3 ^ (j - 1))
            /\ (pc[q] = "awaitOwn" /\ Settled(q) /\ P.onlyRetryable) =>
                  /\ Len(P.sleeps) = 2
                  /\ SumSeq(P.sleeps) >= 300 + 900
                  /\ 10 * SumSeq(P.sleeps) <= 12 * (300 + 900)

\* A request exhausted its retries after two sleeps of the greatest length.
C14_Witness ==
    \E q \in DOMAIN promises :
        /\ pc[q] = "awaitOwn"
        /\ promises[q].state = "fulfilled"
        /\ promises[q].onlyRetryable
        /\ promises[q].sleeps = <<360, 1080>>

-----------------------------------------------------------------------------
(* Cache writes and lookups (SpecCache) *)

\* Call c made the provider call itself and it has settled with a result.
OwnSettled(c) ==
    /\ pc[c] = "awaitOwn"
    /\ c \in DOMAIN promises
    /\ promises[c].state = "fulfilled"

\* The table of the moment call c was made, without the records of its task.
OtherTasks(c) == {r \in before : r.taskId # params[c].taskId}

\* The entry the claim describes for call c: active, for the call's task,
\* under the call's signature, expiring 24 h after it was written.
IsFreshEntry(r, c) ==
    /\ r.taskId = params[c].taskId
    /\ r.taskId # <<>>
    /\ r.taskSignature = getSignatureFromParams(params[c])
    /\ r.status = "active"
    /\ r.suggestions = promises[c].value.suggestions
    /\ GetTime(r.createdAt) <= now
    /\ GetTime(r.expiresAt) = GetTime(r.createdAt) + 24 * 60 * 60 * 1000

\* C15 as stated: every call whose provider call succeeded has made exactly
\* one write, a put of a fresh entry for its task.
C15_SuccessWritesEntry ==
    \A c \in Calls :
        (OwnSettled(c) /\ promises[c].value.success) =>
            /\ ~promises[c].value.fromCache
            /\ \E r \in aiSuggestions :
                  /\ IsFreshEntry(r, c)
                  /\ aiSuggestions = OtherTasks(c) \cup {r}

\* C15 amended: the write is made when the call names a task and the
\* provider returned at least one suggestion; otherwise the successful call
\* writes nothing.
C15_SuccessWritesEntryIfKeyed ==
    \A c \in Calls :
        (OwnSettled(c) /\ promises[c].value.success) =>
            /\ ~promises[c].value.fromCache
            /\ IF params[c].taskId # <<>>
                  /\ Len(promises[c].value.suggestions) > 0
               THEN \E r \in aiSuggestions :
                      /\ IsFreshEntry(r, c)
                      /\ aiSuggestions = OtherTasks(c) \cup {r}
               ELSE aiSuggestions = OtherTasks(c)

\* A later call for the task succeeded at the provider and replaced the
\* entry of an earlier call.
C15_Witness ==
    \E c \in Calls :
        /\ OwnSettled(c)
        /\ promises[c].value.success
        /\ before # {}
        /\ \E r \in aiSuggestions :
              IsFreshEntry(r, c) /\ GetTime(r.createdAt) > 0

\* C16 as stated: a call whose provider call failed returns success=false
\* with an error, and the table is as it was before the call.
C16_FailureLeavesCache ==
    \A c \in Calls :
        (OwnSettled(c) /\ ~promises[c].value.success) =>
            /\ promises[c].value.error # <<>>
            /\ aiSuggestions = before

\* C16 amended: the failed call has created and overwritten nothing; the
\* one record that may be gone is the stale record of its task, which the
\* lookup at the start of the call deleted.
C16_FailureWritesNothing ==
    \A c \in Calls :
        (OwnSettled(c) /\ ~promises[c].value.success) =>
            /\ promises[c].value.error # <<>>
            /\ aiSuggestions = OtherTasks(c)
            /\ ~promises[c].save.write

\* A call found a stale record, deleted it and then failed at the provider.
C16_Witness ==
    \E c \in Calls :
        /\ OwnSettled(c)
        /\ ~promises[c].value.success
        /\ before # {}
        /\ aiSuggestions = {}

\* Call c is made in this step: its getCachedSuggestions reads the table.
LookupStep(c) == pc[c] = "idle" /\ pc'[c] # "idle"

\* The lookup of call c is a hit that returns the suggestions of record r.
HitsWith(c, r) ==
    /\ pc'[c] = "done"
    /\ result'[c] = [suggestions |-> r.suggestions, success |-> TRUE,
                     fromCache |-> TRUE]
    /\ aiSuggestions' = aiSuggestions

\* The lookup of call c is a miss that goes on to delete record r.
MissesAndDeletes(c, r) ==
    /\ pc'[c] = "cacheDelete"
    /\ del'[c] = r.id
    /\ result'[c] = result[c]

\* The deletion a lookup started completes: the task has no entry left.
DeletedThenAbsent(c) ==
    (pc[c] = "cacheDelete" /\ pc'[c] # "cacheDelete") =>
        \A r \in aiSuggestions' : r.taskId # params[c].taskId

\* C17: with an entry stored for task T under signature S, a lookup (T, S)
\* before the entry expires is a hit that returns the stored suggestions; a
\* lookup (T, S') with S' # S is a miss that deletes the entry, after which
\* the table holds nothing for T.
C17_CacheCoherence ==
    [][\A c \in Calls :
          /\ LookupStep(c) =>
                \A r \in aiSuggestions :
                    (r.taskId = params'[c].taskId /\ r.taskId # <<>>) =>
                        /\ (/\ r.taskSignature = getSignatureFromParams(params'[c])
                            /\ now <= GetTime(r.expiresAt)) => HitsWith(c, r)
                        /\ r.taskSignature # getSignatureFromParams(params'[c])
                              => MissesAndDeletes(c, r)
          /\ DeletedThenAbsent(c)]_vars

\* A lookup under the edited task's signature found the unexpired entry of
\* the old signature and deleted it.
C17_Witness ==
    \E c \in Calls :
        /\ pc[c] = "rateCheck"
        /\ \E r \in before :
              /\ r.taskId = params[c].taskId
              /\ r.taskSignature # getSignatureFromParams(params[c])
              /\ now <= GetTime(r.expiresAt)
        /\ \A r \in aiSuggestions : r.taskId # params[c].taskId

\* C18: an entry written at time C is a hit for lookups under its signature
\* at every time up to and including C + 24 h; the first such lookup after
\* C + 24 h is a miss that deletes the entry, after which it is absent.
C18_CacheExpiry ==
    [][\A c \in Calls :
          /\ LookupStep(c) =>
                \A r \in aiSuggestions :
                    (/\ r.taskId = params'[c].taskId
                     /\ r.taskId # <<>>
                     /\ r.taskSignature = getSignatureFromParams(params'[c])) =>
                        IF now <= GetTime(r.createdAt) + 24 * 60 * 60 * 1000
                        THEN HitsWith(c, r)
                        ELSE MissesAndDeletes(c, r)
          /\ DeletedThenAbsent(c)]_vars

\* One millisecond after C + 24 h a lookup under the entry's signature
\* missed and the entry has been deleted.
C18_Witness ==
    \E c \in Calls :
        /\ pc[c] = "rateCheck"
        /\ \E r \in before :
              /\ r.taskId = params[c].taskId
              /\ r.taskSignature = getSignatureFromParams(params[c])
              /\ now = GetTime(r.createdAt) + 24 * 60 * 60 * 1000 + 1
        /\ \A r \in aiSuggestions : r.taskId # params[c].taskId

-----------------------------------------------------------------------------
(* The cache table under repository operations (SpecRepo) *)

\* C19: whatever task creations, suggestion requests, updates, consumptions
\* and deletions have run, and however interleaved, no two records of the
\* cache table are for the same task.
C19_OneEntryPerTask ==
    \A r1, r2 \in aiSuggestions : r1.taskId = r2.taskId => r1 = r2

\* update has just run invalidateSuggestionsIfSignatureChanged.
InvalidateStep ==
    repoOp["update"].pc = "invalidate" /\ repoOp'["update"].pc = "idle"

\* C20: when an update that changed the task's signature completes its
\* invalidation, the table holds no entry of the task; and, however updates
\* and calls interleave, a call that returns fromCache=true returns the
\* suggestions of an entry stored under the signature the caller passed.
C20_UpdateInvalidates ==
    [][/\ InvalidateStep =>
            LET op == repoOp["update"]
            IN  computeSignature(op.old) # computeSignature(op.new) =>
                    \A r \in aiSuggestions' : r.taskId # op.new.id
       /\ \A c \in Calls :
            (LookupStep(c) /\ pc'[c] = "done") =>
                /\ result'[c].fromCache
                /\ \E r \in aiSuggestions :
                      /\ r.taskId = params'[c].taskId
                      /\ r.taskSignature = params'[c].taskSignature
                      /\ r.suggestions = result'[c].suggestions]_vars

\* An update of the task's text has deleted the entry stored for the old
\* text.
C20_Witness ==
    /\ repoOp["update"].pc = "idle"
    /\ "removed" \in DOMAIN repoOp["update"]
    /\ \E r \in repoOp["update"].removed :
          /\ r.taskSignature = computeSignature(repoOp["update"].old)
          /\ r.taskSignature # computeSignature(repoOp["update"].new)
    /\ \A r \in aiSuggestions : r.taskId # repoOp["update"].new.id

\* Every call has returned or was never made.
AllCallsSettled == \A c \in Calls : pc[c] \in {"idle", "done", "thrown"}

\* C21: a task deleted while a request for it was in flight has no cache
\* entry once the request has settled: the request's write was skipped.
C21_NoEntryForDeletedTask ==
    (/\ AllCallsSettled
     /\ repoOp["delete"].pc = "idle"
     /\ GetById(SeedTask.id) = {}) =>
        \A r \in aiSuggestions :
            r.id # SeedTask.id \o <<"-ai-suggestion">>

\* The four values the signature is said to depend on.
CoreFields(t) ==
    <<Trim(t.text), t.importance, t.urgency,
      IF t.dueDate = Null THEN <<>> ELSE t.dueDate>>

\* C22: two snapshots of a task have equal signatures exactly when they
\* agree on the trimmed text, importance, urgency and due date (null read
\* as the empty string); completed and subTasks play no part.
C22_SignatureIffCoreFields ==
    sigPair.phase = "compared" =>
        ((sigPair.sa = sigPair.sb) <=>
            (CoreFields(sigPair.a) = CoreFields(sigPair.b)))

\* Snapshots that differ in text, due date, completed and subTasks and
\* still sign alike.
C22_Witness ==
    /\ sigPair.phase = "compared"
    /\ sigPair.a.text # sigPair.b.text
    /\ sigPair.a.dueDate # sigPair.b.dueDate
    /\ sigPair.b.completed
    /\ sigPair.b.subTasks # <<>>
    /\ sigPair.sa = sigPair.sb

\* Record r is in the table before the step and no record of its id after.
Leaves(r) == r \in aiSuggestions /\ \A x \in aiSuggestions' : x.id # r.id

\* The step is one of the three ways out named for a consumed entry: its
\* task is being deleted or is gone, its signature is not the one of the
\* task row, of the update under way or of the call whose lookup deletes
\* it, or it has expired.
DeletionMismatchOrExpiry(r) ==
    \/ repoOp["delete"].pc = "idle" /\ repoOp'["delete"].pc = "deleteTask"
    \/ GetById(r.taskId) = {}
    \/ \E t \in GetById(r.taskId) : computeSignature(t) # r.taskSignature
    \/ InvalidateStep /\ SignatureChanged(repoOp["update"].old,
                                           repoOp["update"].new)
    \/ \E c \in Calls :
          /\ pc[c] = "cacheDelete"
          /\ del[c] = r.id
          /\ getSignatureFromParams(params[c]) # r.taskSignature
    \/ Expired(r, now)

\* C23: a consumed entry stays in the table; it leaves only by the
\* deletion of its task, by a signature mismatch or by expiry.
C23_ConsumedEntryKept ==
    [][\A r \in aiSuggestions :
          (r.status = "consumed" /\ Leaves(r)) =>
              DeletionMismatchOrExpiry(r)]_vars

\* loadTasks has just returned from getAllWithDetails.
LoadReturns ==
    repoOp["load"].pc \in {"readDetails", "cleanup"}
        /\ repoOp'["load"].pc = "idle"

\* C24: consumed suggestions are not shown again: no load reports the
\* suggestions of a consumed entry as the aiSuggestions of its task, and no
\* call for the task and signature returns them as a cache hit.
C24_ConsumedNeverResurfaces ==
    [][/\ LoadReturns =>
            \A r \in repoOp'["load"].shown : r.status # "consumed"
       /\ \A c \in Calls : \A r \in aiSuggestions :
            (/\ LookupStep(c)
             /\ HitsWith(c, r)
             /\ r.taskId = params'[c].taskId
             /\ r.taskSignature = getSignatureFromParams(params'[c])) =>
                r.status # "consumed"]_vars

\* The pool of badge candidates of a noted detection, in the order the
\* loop gathered them.
BadgePool(run) ==
    Collect(nudgeTasks, [result |-> <<>>, allNudges |-> <<>>,
                         map |-> run.before], run.at).allNudges

\* The tasks that show a badge in a returned Map.
BadgeTasks(nudgeMap) ==
    {id \in DOMAIN nudgeMap :
        \E i \in DOMAIN nudgeMap[id] : nudgeMap[id][i].showBadge}

\* C25: in the result of detectAllNudges(tasks, maxBadges) at most maxBadges
\* tasks show a badge; when there are more candidates than maxBadges,
\* exactly maxBadges tasks show one and no hidden candidate has a lower
\* priority number than a shown one.
C25_BadgeQuota ==
    \A k \in DOMAIN nudgeRuns :
        LET run == nudgeRuns[k]
            pool == BadgePool(run)
            shown == BadgeTasks(run.result)
        IN  /\ Cardinality(shown) <= run.maxBadges
            /\ Len(pool) > run.maxBadges =>
                  /\ Cardinality(shown) = run.maxBadges
                  /\ \A i, j \in DOMAIN pool :
                        (pool[i].taskId \in shown /\ pool[j].taskId \notin shown)
                            => pool[i].priority <= pool[j].priority

\* Four candidates under the default quota: three tasks show a badge.
C25_Witness ==
    \E k \in DOMAIN nudgeRuns :
        /\ nudgeRuns[k].maxBadges = MAX_BADGES
        /\ Len(BadgePool(nudgeRuns[k])) > MAX_BADGES
        /\ Cardinality(BadgeTasks(nudgeRuns[k].result)) = MAX_BADGES

\* The (taskId, type) pairs of the nudges of a returned Map.
NudgePairs(nudgeMap) ==
    UNION {{<<id, nudgeMap[id][i].type>> : i \in DOMAIN nudgeMap[id]} :
               id \in DOMAIN nudgeMap}

\* What the loop of a noted detection gathered, before the quota.
Gathered(run) ==
    Collect(nudgeTasks, [result |-> <<>>, allNudges |-> <<>>,
                         map |-> run.before], run.at).result

\* The tasks of the first n badge candidates of a pool.
FirstTasks(pool, n) == {pool[i].taskId : i \in 1..Min(n, Len(pool))}

\* C26: the quota removes no nudge.  The (taskId, type) pairs returned are
\* the same for every maxBadges; each returned nudge is the gathered one,
\* but for a showBadge switched from true to false on a task outside the
\* first maxBadges candidates.
C26_QuotaKeepsNudges ==
    \A k \in DOMAIN nudgeRuns :
        LET run == nudgeRuns[k]
            gathered == Gathered(run)
        IN  /\ \A m \in 0..MaxNudgeTasks :
                  NudgePairs(detectAllNudges(nudgeTasks, m, run.before,
                                             run.at).result)
                      = NudgePairs(run.result)
            /\ DOMAIN run.result = DOMAIN gathered
            /\ \A id \in DOMAIN gathered :
                  /\ Len(run.result[id]) = Len(gathered[id])
                  /\ \A i \in DOMAIN gathered[id] :
                        \/ run.result[id][i] = gathered[id][i]
                        \/ /\ run.result[id][i] =
                                  [gathered[id][i] EXCEPT !.showBadge = FALSE]
                           /\ gathered[id][i].showBadge
                           /\ id \notin FirstTasks(BadgePool(run), run.maxBadges)

\* A task outside the quota keeps both its nudges, the badge of its
\* overdue nudge switched off.
C26_Witness ==
    \E k \in DOMAIN nudgeRuns : \E id \in DOMAIN nudgeRuns[k].result :
        /\ Len(nudgeRuns[k].result[id]) = 2
        /\ Gathered(nudgeRuns[k])[id][1].showBadge
        /\ ~nudgeRuns[k].result[id][1].showBadge
        /\ BadgeTasks(nudgeRuns[k].result) # {}

\* C27: badge candidates have equal priority, and the quota keeps those
\* that come first in the task list; a second detection on the same task
\* list at the same time gives every nudge the same showBadge.
C27_QuotaKeepsFirst ==
    /\ \A k \in DOMAIN nudgeRuns :
          LET run == nudgeRuns[k]
              pool == BadgePool(run)
          IN  \A i, j \in DOMAIN pool :
                (/\ i < j
                 /\ pool[i].priority = pool[j].priority
                 /\ pool[j].taskId \in BadgeTasks(run.result))
                    => pool[i].taskId \in BadgeTasks(run.result)
    /\ Len(nudgeRuns) = 2 => nudgeRuns[2].result = nudgeRuns[1].result

\* Two detections with more candidates than the quota: the last candidate
\* of the list shows no badge.
C27_Witness ==
    /\ Len(nudgeRuns) = 2
    /\ LET pool == BadgePool(nudgeRuns[2])
       IN  /\ Len(pool) > nudgeRuns[2].maxBadges
           /\ nudgeRuns[2].maxBadges > 0
           /\ pool[Len(pool)].taskId \notin BadgeTasks(nudgeRuns[2].result)
           /\ pool[1].taskId \in BadgeTasks(nudgeRuns[2].result)

\* The (taskId, type) pairs whose rule holds for the task list at time t.
RulePairs(t) ==
    NudgePairs(detectAllNudges(nudgeTasks, MAX_BADGES, <<>>, t).result)

\* The pairs a noted detection saw dismissed less than 24 h before it.
Cooling(run) ==
    {pair \in RulePairs(run.at) :
        LET key == getCooldownKey(pair[1], pair[2])
        IN  /\ key \in DOMAIN run.seen
            /\ run.at < run.seen[key] + NUDGE_COOLDOWN_MS}

\* C28: a detection returns the nudges whose rule holds, but for those
\* dismissed less than 24 h before it: a nudge dismissed at T is left out
\* at every time before T + 24 h and back from T + 24 h on, its entry then
\* purged from the stored map; no other nudge is affected.
C28_CooldownWindow ==
    \A k \in DOMAIN nudgeRuns :
        LET run == nudgeRuns[k]
        IN  /\ NudgePairs(run.result) = RulePairs(run.at) \ Cooling(run)
            /\ \A pair \in RulePairs(run.at) \ Cooling(run) :
                  getCooldownKey(pair[1], pair[2]) \notin DOMAIN run.after

\* A detection exactly 24 h after a dismissal returns the nudge again and
\* purges its entry, while a nudge dismissed later stays left out.
C28_Witness ==
    \E k \in DOMAIN nudgeRuns : \E pair \in NudgePairs(nudgeRuns[k].result) :
        LET run == nudgeRuns[k]
            key == getCooldownKey(pair[1], pair[2])
        IN  /\ key \in DOMAIN run.seen
            /\ run.at = run.seen[key] + NUDGE_COOLDOWN_MS
            /\ key \in DOMAIN run.before
            /\ key \notin DOMAIN run.after
            /\ Cooling(run) # {}

\* The nudges of one type among those returned.
OfType(nudges, type) == SelectSeq(nudges, LAMBDA n : n.type = type)

\* C29: for an incomplete task, an overdue nudge with priority 1 and
\* showBadge=true is returned exactly when the due date is a day before
\* today, and a needs_breakdown nudge with priority 99 and showBadge=false
\* exactly when the text is longer than 50 characters and the task has no
\* subtasks and no AI suggestions; a completed task gets no nudge, and no
\* nudge of another type is returned.
C29_RuleOutput ==
    \A k \in DOMAIN nudgeRuns :
        LET task == nudgeTasks[1]
            run == nudgeRuns[k]
            today == run.at \div DayMs
            dueBefore == /\ task.dueDate \notin {Null, <<>>}
                         /\ task.dueDate[2] < today
            long == /\ Len(task.text) > 50
                    /\ task.subTasks = <<>>
                    /\ task.aiSuggestions = <<>>
        IN  /\ task.completed => run.nudges = <<>>
            /\ (~task.completed /\ dueBefore) <=>
                  OfType(run.nudges, "overdue") # <<>>
            /\ (~task.completed /\ long) <=>
                  OfType(run.nudges, "needs_breakdown") # <<>>
            /\ \A i \in DOMAIN run.nudges :
                  /\ run.nudges[i].taskId = task.id
                  /\ \/ /\ run.nudges[i].type = "overdue"
                        /\ run.nudges[i].priority = 1
                        /\ run.nudges[i].showBadge
                     \/ /\ run.nudges[i].type = "needs_breakdown"
                        /\ run.nudges[i].priority = 99
                        /\ ~run.nudges[i].showBadge
            /\ Len(OfType(run.nudges, "overdue")) <= 1
            /\ Len(OfType(run.nudges, "needs_breakdown")) <= 1

\* A long task due today gets both nudges at midnight.
C29_Witness ==
    /\ nudgeRuns # <<>>
    /\ nudgeRuns[1].at = 11 * DayMs
    /\ nudgeTasks[1].dueDate = DateString(10)
    /\ Len(nudgeRuns[1].nudges) = 2

\* The state a signal type counts for, and the weights, as listed.
CountsFor ==
    [completion_rate |-> "energized", low_completion_rate |-> "low",
     procrastination |-> "avoidant", late_night_usage |-> "tired",
     needs_breakdown |-> "needs_breakdown"]

WeightOf == [high |-> 3, medium |-> 2, low |-> 1]

\* Twice the score of a state for a list of signals: 0.5 for okay to begin
\* with, plus the weights of the signals that count for the state.
RECURSIVE DoubleScore(_, _)
DoubleScore(state, signals) ==
    IF signals = <<>>
    THEN (IF state = "okay" THEN 1 ELSE 0)
    ELSE DoubleScore(state, Tail(signals))
            + (IF CountsFor[Head(signals).type] = state
               THEN 2 * WeightOf[Head(signals).weight] ELSE 0)

\* C30: determineState answers okay for no signals; otherwise the state of
\* the highest score, each signal adding its weight to the one state its
\* type counts for, and of the states with that score the earliest in the
\* order energized, okay, low, tired, avoidant, uncertain, disengaged,
\* needs_breakdown.
C30_DetermineState ==
    inference.phase = "inferred" =>
        LET signals == inference.signals
            order == <<"energized", "okay", "low", "tired", "avoidant",
                       "uncertain", "disengaged", "needs_breakdown">>
        IN  IF signals = <<>>
            THEN inference.out.state = "okay"
            ELSE \E i \in DOMAIN order :
                   /\ inference.out.state = order[i]
                   /\ \A j \in DOMAIN order :
                         /\ DoubleScore(order[j], signals)
                               <= DoubleScore(order[i], signals)
                         /\ j < i => DoubleScore(order[j], signals)
                                        < DoubleScore(order[i], signals)

\* Energized and avoidant tie at the top: the answer is energized.
C30_Witness ==
    /\ inference.phase = "inferred"
    /\ inference.signals # <<>>
    /\ DoubleScore("energized", inference.signals)
          = DoubleScore("avoidant", inference.signals)
    /\ DoubleScore("energized", inference.signals) > 1
    /\ inference.out.state = "energized"

\* Twice the highest score of any state for a list of signals.
RECURSIVE MaxDoubleScore(_, _)
MaxDoubleScore(i, signals) ==
    IF i = 0 THEN 0
    ELSE LET here == DoubleScore(StateOrder[i], signals)
             rest == MaxDoubleScore(i - 1, signals)
         IN  IF here > rest THEN here ELSE rest

\* C31: the confidence of determineState is min(maxScore / (3 * n), 1) for
\* a list of n > 0 signals and 0.5 for the empty list, and always lies in
\* [0, 1].
C31_Confidence ==
    inference.phase = "inferred" =>
        LET n == Len(inference.signals)
            c == inference.out.confidence
            top == MaxDoubleScore(Len(StateOrder), inference.signals)
        IN  /\ c.den > 0
            /\ 0 <= c.num
            /\ c.num <= c.den
            /\ IF n = 0
               THEN 2 * c.num = c.den
               ELSE c.num * (2 * 3 * n) = c.den * Min(top, 2 * 3 * n)

\* Three signals whose best state scores 4 of 9: the confidence is 4/9.
C31_Witness ==
    /\ inference.phase = "inferred"
    /\ Len(inference.signals) = 3
    /\ 9 * inference.out.confidence.num = 4 * inference.out.confidence.den

\* C32: a state inferred at T carries inferredAt = T and validUntil =
\* T + 4 h; isStateValid is false for a null state, true for the state at
\* every time from T up to but not including T + 4 h, and false from then on.
C32_ValidityWindow ==
    /\ inference.phase = "held" =>
          /\ GetTime(inference.state.inferredAt) = inference.madeAt
          /\ GetTime(inference.state.validUntil)
                = inference.madeAt + 4 * 60 * 60 * 1000
    /\ \A k \in DOMAIN inference.checks :
          inference.checks[k].valid <=>
              /\ inference.phase = "held"
              /\ inference.checks[k].at < inference.madeAt + 4 * 60 * 60 * 1000

\* A state asked about exactly 4 h after it was inferred is not valid.
C32_Witness ==
    /\ inference.phase = "held"
    /\ inference.madeAt > 0
    /\ \E k \in DOMAIN inference.checks :
          /\ inference.checks[k].at = inference.madeAt + 4 * 60 * 60 * 1000
          /\ ~inference.checks[k].valid

-----------------------------------------------------------------------------
(* Properties of the in-flight map after settlement *)

\* The call that registered the promise of key k and still awaits it.
Owner(k) == inFlight[k]

\* C33: the in-flight entry of a key goes when its call settles, with a
\* result or with the rejection of fetch: every entry belongs to a call that
\* still awaits the promise it registered under that key, the step in which
\* a call returns or throws removes its entry, and once every call has
\* settled the map is empty.
C33_EntryRemovedOnSettle ==
    /\ \A k \in DOMAIN inFlight :
          /\ pc[Owner(k)] = "awaitOwn"
          /\ promises[Owner(k)].key = k
    /\ \A c \in DOMAIN promises :
          pc[c] \in {"done", "thrown"} =>
             \A k \in DOMAIN inFlight : Owner(k) # c
    /\ AllCallsSettled => inFlight = <<>>

\* The fetch of the first call rejected and the call threw; a later request
\* for the same key registered a new promise whose fetch is outstanding.
C33_Witness ==
    /\ pc[1] = "thrown"
    /\ promises[1].state = "rejected"
    /\ pc[2] = "awaitOwn"
    /\ Pending(2)
    /\ promises[2].key = promises[1].key
    /\ DOMAIN inFlight = {promises[1].key}
-----------------------------------------------------------------------------
(* Properties of the rate-limit slots of a failed call *)

\* The provider call of d ended without suggestions: fetch rejected, or
\* fetchWithRetry returned a success=false result.
ProviderFailed(d) ==
    /\ d \in DOMAIN promises
    /\ pc[d] \in {"done", "thrown"}
    /\ \/ promises[d].state = "rejected"
       \/ /\ promises[d].state = "fulfilled"
          /\ ~promises[d].value.success

\* The timestamps bucket b holds for the task key k, or for the user key.
Slots(b, k) ==
    LET e == Entries(rateLimits, b,
                     IF b \in {"perTask5m", "perTask1h"} THEN k ELSE UserKey)
    IN  {e[i] : i \in DOMAIN e}

\* C34: the slots of an admitted request are not given back when its
\* provider call fails: right after the failure (no time has passed since
\* the admission) each of the four buckets still holds the admission's
\* timestamp, checkRateLimits turns away every request for the same task key
\* with the per-task 5 min message, and a call turned away as rateLimited
\* made no provider call.
C34_SlotsNotRefunded ==
    /\ \A d \in Calls :
          (ProviderFailed(d) /\ ticks = 0) =>
             LET k == promises[d].key
             IN  /\ \A b \in RateBucket : now \in Slots(b, k)
                 /\ \A p \in CallParams :
                       buildRateKey(p).taskKey = k =>
                          LET r == checkRateLimits(rateLimits, p, now)
                          IN  ~r.ok /\ r.message = MsgPerTask5m
                 /\ \A c \in Calls :
                       (pc[c] = "rateCheck"
                          /\ buildRateKey(params[c]).taskKey = k) =>
                             ~checkRateLimits(rateLimits, params[c], now).ok
    /\ \A c \in Calls :
          (pc[c] = "done" /\ "rateLimited" \in DOMAIN result[c]) =>
             c \notin DOMAIN promises

\* The first call's provider call failed; the second request, made at once,
\* was turned away as rateLimited and no promise was created for it.
C34_Witness ==
    /\ ProviderFailed(1)
    /\ ticks = 0
    /\ pc[2] = "done"
    /\ "rateLimited" \in DOMAIN result[2]
    /\ result[2].error = MsgPerTask5m
    /\ 2 \notin DOMAIN promises
    /\ concurrent[2] = 0
-----------------------------------------------------------------------------
(* Properties of the admissions over time *)

\* The admissions made in the window of length w that opens at time t, for
\* every task key (keys = all) or for one.
InSpan(t, w, keys) ==
    {a \in admitted : a.key \in keys /\ t <= a.at /\ a.at <= t + w}

AllKeys == {a.key : a \in admitted}

\* C35: of the requests made, for whatever task keys, the rate check lets
\* through at most 3 in any 60 s and at most 10 in any 60 min over all keys,
\* and at most 1 in any 5 min and at most 3 in any 60 min for one task key
\* (every window that holds an admission holds no more than the window
\* opening at its first admission).
C35_AdmissionsPerWindow ==
    \A a \in admitted :
        /\ Cardinality(InSpan(a.at, RATE_CONFIG["perUser1m"].windowMs, AllKeys))
              <= 3
        /\ Cardinality(InSpan(a.at, RATE_CONFIG["perUser1h"].windowMs, AllKeys))
              <= 10
        /\ Cardinality(InSpan(a.at, RATE_CONFIG["perTask5m"].windowMs, {a.key}))
              <= 1
        /\ Cardinality(InSpan(a.at, RATE_CONFIG["perTask1h"].windowMs, {a.key}))
              <= 3

\* Ten requests got through within the hour, three of them at one instant
\* and three of them for one task key.
C35_Witness ==
    /\ Cardinality(admitted) = 10
    /\ \E a \in admitted :
          Cardinality(InSpan(a.at, 0, AllKeys)) = 3
    /\ \E a \in admitted :
          Cardinality(InSpan(0, RATE_CONFIG["perTask1h"].windowMs, {a.key})) = 3
-----------------------------------------------------------------------------
(* Properties of the quota after a dismissal *)

\* The task whose badged overdue nudge was dismissed between the two
\* renders, as a set: empty if the dismissal was of another kind.
DismissedBadge ==
    {id \in BadgeTasks(nudgeRuns[1].result) :
        DOMAIN nudgeRuns[2].seen = {getCooldownKey(id, "overdue")}}

-----------------------------------------------------------------------------
(* Properties of the state chosen from generated signals *)

\* The states the signals of a list speak for.
StatesOf(signals) == {ScoredState(signals[i].type) : i \in DOMAIN signals}

\* C38: given one or more signals of the five generated types,
\* determineState returns neither okay nor uncertain nor disengaged: it
\* returns the state one of the signals present is associated with.
C38_StateOfSomeSignal ==
    (inference.phase = "inferred" /\ inference.signals # <<>>) =>
        /\ inference.out.state \notin {"okay", "uncertain", "disengaged"}
        /\ inference.out.state \in StatesOf(inference.signals)

\* One low-weight late-night signal on its own: the state is tired.
C38_Witness ==
    /\ inference.phase = "inferred"
    /\ Len(inference.signals) = 1
    /\ inference.signals[1] = [type |-> "late_night_usage", weight |-> "low"]
    /\ inference.out.state = "tired"
-----------------------------------------------------------------------------
(* Properties of the completion-rate signals *)

\* The positions of the signals of one type in a generated list.
SignalsOfType(type) ==
    {i \in DOMAIN inference.signals : inference.signals[i].type = type}

\* The tasks completed on the day of the pass, and the tasks relevant to
\* that day: those, and the tasks not completed.
CompletedToday ==
    {i \in DOMAIN inference.tasks :
        /\ inference.tasks[i].completed
        /\ CompletedOn(inference.tasks[i], inference.at)}

RelevantTasks ==
    CompletedToday \cup
       {i \in DOMAIN inference.tasks : ~inference.tasks[i].completed}

\* C37: a pass of generateSignals emits a completion_rate signal of high
\* weight exactly when completedToday / relevantTasks >= 0.7 and a
\* low_completion_rate signal of medium weight exactly when that ratio is
\* <= 0.3; with no relevant task it emits neither; it never emits both, and
\* it emits at most one signal of each type.
C37_CompletionSignals ==
    inference.phase = "generated" =>
        LET done == Cardinality(CompletedToday)
            rel == Cardinality(RelevantTasks)
            high == SignalsOfType("completion_rate")
            low == SignalsOfType("low_completion_rate")
        IN  /\ high # {} <=> (rel > 0 /\ 10 * done >= 7 * rel)
            /\ low # {} <=> (rel > 0 /\ 10 * done <= 3 * rel)
            /\ rel = 0 => (high = {} /\ low = {})
            /\ ~(high # {} /\ low # {})
            /\ \A i \in high : inference.signals[i].weight = "high"
            /\ \A i \in low : inference.signals[i].weight = "medium"
            /\ \A type \in SignalTypes : Cardinality(SignalsOfType(type)) <= 1

\* Seven of ten relevant tasks were completed today, and one the day
\* before: the ratio is 0.7 and the completion_rate signal is emitted.
C37_Witness ==
    /\ inference.phase = "generated"
    /\ Cardinality(CompletedToday) = 7
    /\ Cardinality(RelevantTasks) = 10
    /\ Len(inference.tasks) = 11
    /\ SignalsOfType("completion_rate") # {}
-----------------------------------------------------------------------------
(* Properties of the focus limit *)

\* C39: whatever toggleFocused calls were made, and however the steps of
\* calls on different tasks interleaved, at most 3 tasks are focused for
\* today; a call that would have made a fourth returned success=false with
\* the error 'Maximum 3 focused tasks allowed' and left its task as it was.
C39_AtMostThreeFocused ==
    /\ Cardinality(getFocused(focus.rows, now)) <= MAX_FOCUSED
    /\ \A c \in Toggles :
          (focus.calls[c].pc = "done" /\ ~focus.calls[c].success) =>
             /\ focus.calls[c].error = <<"Maximum 3 focused tasks allowed">>
             /\ focus.calls[c].counted >= MAX_FOCUSED
-----------------------------------------------------------------------------
(* Properties of the parsed suggestions *)

\* The positions of the array whose element is a string with something
\* besides blanks in it.
ValidPositions ==
    {i \in DOMAIN parsed.reply.elements : IsSuggestion(parsed.reply.elements[i])}

\* The position of the k-th valid element.
ValidAt(k) ==
    CHOOSE i \in ValidPositions :
        Cardinality({j \in ValidPositions : j <= i}) = k

\* C40: when parseResponse returns, it returns at most 5 suggestions, each
\* a non-empty string that neither starts nor ends with a blank, in the
\* order of the provider's array: the k-th suggestion is the k-th string
\* element that is not blank, trimmed, so that what is not a string or is
\* blank takes none of the five places.
C40_ParsedSuggestions ==
    (parsed.phase = "parsed" /\ ~parsed.out.threw) =>
        LET out == parsed.out.suggestions
        IN  /\ Len(out) <= 5
            /\ Len(out) = Min(5, Cardinality(ValidPositions))
            /\ \A k \in DOMAIN out :
                  /\ out[k] # <<>>
                  /\ Head(out[k]) # " "
                  /\ out[k][Len(out[k])] # " "
                  /\ out[k] = Trim(parsed.reply.elements[ValidAt(k)].s)

\* An array of six elements, the first of them no string: the five that
\* follow are returned, the padded ones trimmed.
C40_Witness ==
    /\ parsed.phase = "parsed"
    /\ ~parsed.out.threw
    /\ Len(parsed.reply.elements) = 6
    /\ parsed.reply.elements[1] = NonString
    /\ Len(parsed.out.suggestions) = 5
    /\ parsed.out.suggestions[5] = <<"b">>
    /\ parsed.reply.elements[6] = JsonString(<<" ", "b", " ">>)
====
